---- MODULE Spec2Model ----
(***************************************************************************)
(* Audio-Spectrum-Visualizer: the 5-band equalizer (eq::EQProcessor, used  *)
(* by the VST3 PluginProcessor, and the AudioAnalyzer's own copy of it),   *)
(* the persisted-state stream, and the audio / control thread protocol.    *)
(*                                                                         *)
(* Numbers.  The program's doubles are fixed-point integers:               *)
(*   gain       1/100 dB     (12.0 dB = 1200, the 0.01 dB threshold = 1)   *)
(*   frequency  Hz                                                         *)
(*   q          1/1000       (0.707 = 707)                                 *)
(*   samples, filter coefficients and delay memory: 1/SCALE (1.0 = 1000)   *)
(* A float is a double rounded to a multiple of FLT_STEP.  NaN is a value  *)
(* of its own for which every comparison is false.  pow, cos, sin and      *)
(* log10 are tables over the arguments the model can produce.              *)
(***************************************************************************)
EXTENDS Integers, Sequences, FiniteSets, TLC

VARIABLES
    \* eq::EQProcessor (PluginProcessor::eq_)
    frequencies_, gains_, qFactors_, filters_, bypass_, sampleRate_,
    \* audio::AudioAnalyzerImpl: the equalizer part
    eqConfig, eqFilters, eqNeedsUpdate,
    \* the host's stream as PluginProcessor::getState last wrote it, and the
    \* band values and bypass flag the processor had then
    stream, saved,
    \* PluginController: the normalized value of every parameter, in 1/SCALE
    params,
    \* where the audio thread and the UI thread are in the call they run
    aud, ui,
    \* AudioAnalyzerImpl::bufferMutex and PluginProcessor::spectrumMutex_:
    \* "free", or the thread that holds it
    bufferMutex, spectrumMutex_,
    \* AudioAnalyzerImpl::fileLoaded and playing, and whether the playback
    \* device is started
    fileLoaded, playing, deviceStarted,
    \* AudioAnalyzerImpl::currentFrame and totalFrames, and the frame the
    \* decoder reads next
    currentFrame, totalFrames, decoderFrame,
    \* number of audio callbacks begun so far
    nCallbacks,
    \* history: the running (or last) callback, the band edits since the
    \* filters were last computed, and whether a callback has completed
    \* that began after the last edit
    cb, editsSinceUpdate, settled,
    \* AudioAnalyzerImpl: the analyzer configuration, the ring of mono samples
    \* and its write cursor, the bin range of every band, the smoothed band
    \* magnitudes and the spectrum frame handed to the display
    config, sampleBuffer, bufferWritePos, bandBins, smoothedMagnitudes, currentSpectrum,
    \* PluginProcessor: the input buffer, its write cursor and the spectrum
    inputBuffer_, inputBufferPos_, spectrum_,
    \* history: the mono samples written to the running program's buffer
    \* since it was last zeroed, oldest first, and what the last analysis
    \* read and computed
    written, tick,
    \* the plugin instances of one process: every PluginProcessor with the
    \* place of its audio thread in process, the scratch buffer that is a
    \* static local of process, the SharedSpectrumData singleton, and every
    \* PluginEditor's spectrum with the place of the UI thread in its render
    procs, tempBuffer, shared, editors,
    \* one PluginController: its editor_ and editorMutex_, the PluginEditor
    \* objects it created, and the threads that call it
    controller, views, threads,
    \* which binary runs: the VST3 plugin (EQProcessor) or the standalone
    \* player (AudioAnalyzer)
    program,
    \* the last call made on the equalizer, its arguments and what it returned
    call,
    \* number of calls made so far
    nCalls

eqVars == <<frequencies_, gains_, qFactors_, filters_, bypass_, sampleRate_>>
aaEqVars == <<eqConfig, eqFilters, eqNeedsUpdate>>
stateVars == <<stream, saved, params>>
trVars == <<currentFrame, totalFrames, decoderFrame>>
instVars == <<procs, tempBuffer, shared, editors, controller, views, threads>>
rtVars == <<aud, ui, bufferMutex, spectrumMutex_, fileLoaded, playing, deviceStarted,
           trVars, instVars, nCallbacks, cb, editsSinceUpdate, settled>>
histVars == <<program, call, nCalls>>
anVars == <<config, sampleBuffer, bufferWritePos, bandBins, smoothedMagnitudes, currentSpectrum,
           inputBuffer_, inputBufferPos_, spectrum_, written, tick>>

----------------------------------------------------------------------------
(* Bounds of the model *)

\* calls made on the equalizer in one behaviour of Spec
MaxCalls == 4

\* audio callbacks begun in one behaviour of SpecRT
MaxCallbacks == 2

\* the longest vector handed to the functions of namespace fft
MaxSignalLen == 5

\* PluginProcessor::kFFTSize, the size of the plugin's input buffer and FFT
kFFTSize == 4

----------------------------------------------------------------------------
(* Program constants *)

NUM_BANDS == 5
MIN_FREQ == 20
MAX_FREQ == 20000
MIN_GAIN == -1200
MAX_GAIN == 1200
MIN_Q == 100
MAX_Q == 10000
DEFAULT_Q == 707
DEFAULT_FREQUENCIES == [i \in 0..4 |-> CASE i = 0 -> 60 [] i = 1 -> 250 [] i = 2 -> 1000
                                          [] i = 3 -> 4000 [] i = 4 -> 12000]
\* the gain below which a band is skipped: 0.01 dB
GAIN_EPS == 1

Bands == 0..(NUM_BANDS - 1)
Channels == 0..1

SCALE == 10 ^ 3
FLT_STEP == 2 ^ 2
NaN == 10 ^ 9

----------------------------------------------------------------------------
(* Inputs *)

BandInputs == {-1, NUM_BANDS - 1, NUM_BANDS}
GainInputs == {-10000, -2, 0, 1, 10000, NaN}
FreqInputs == {5, 1000, 30000, NaN}
QInputs == {10, 707, 50000, NaN}
SampleRateInputs == {44100, 48000}
SampleInputs == {1000, -500}
StereoInputs == {<<1000, -500>>, <<0, 1000>>}
\* processBlock: <<numFrames, numChannels>>
BlockShapes == {<<0, 2>>, <<2, 1>>, <<2, 2>>, <<1, 3>>}

----------------------------------------------------------------------------
(* double arithmetic *)

\* a < b on doubles: false when either is NaN
Less(a, b) == a # NaN /\ b # NaN /\ a < b

\* std::min(a, b): b if b < a, else a
stdmin(a, b) == IF Less(b, a) THEN b ELSE a

\* std::max(a, b): b if a < b, else a
stdmax(a, b) == IF Less(a, b) THEN b ELSE a

\* std::abs
stdabs(a) == IF a < 0 THEN -a ELSE a

\* static_cast<float>(double): the nearest multiple of FLT_STEP towards zero
ToFloat(d) == IF d >= 0 THEN (d \div FLT_STEP) * FLT_STEP
              ELSE -(((-d) \div FLT_STEP) * FLT_STEP)

\* std::pow(10.0, gainDb / 40.0), in 1/SCALE
Pow10Div40(g) == CASE g = -1200 -> 501 [] g = -2 -> 999 [] g = 0 -> 1000
                   [] g = 1 -> 1001 [] g = 1200 -> 1995

\* std::cos(2 pi freq / sampleRate), in 1/SCALE
CosW0(freq, sr) ==
    IF sr = 44100
    THEN CASE freq = 20 -> 1000 [] freq = 60 -> 1000 [] freq = 250 -> 999
           [] freq = 1000 -> 990 [] freq = 4000 -> 842 [] freq = 12000 -> -138
           [] freq = 19845 -> -951
    ELSE CASE freq = 20 -> 1000 [] freq = 60 -> 1000 [] freq = 250 -> 999
           [] freq = 1000 -> 991 [] freq = 4000 -> 866 [] freq = 12000 -> 0
           [] freq = 20000 -> -866

\* std::sin(2 pi freq / sampleRate), in 1/SCALE
SinW0(freq, sr) ==
    IF sr = 44100
    THEN CASE freq = 20 -> 3 [] freq = 60 -> 9 [] freq = 250 -> 36
           [] freq = 1000 -> 142 [] freq = 4000 -> 540 [] freq = 12000 -> 990
           [] freq = 19845 -> 309
    ELSE CASE freq = 20 -> 3 [] freq = 60 -> 8 [] freq = 250 -> 33
           [] freq = 1000 -> 131 [] freq = 4000 -> 500 [] freq = 12000 -> 1000
           [] freq = 20000 -> 500

----------------------------------------------------------------------------
(* eq::BiquadFilter *)

ZeroState == [c \in Channels |-> 0]

\* BiquadFilter(): the member initializers, then reset()
NewBiquadFilter == [b0 |-> SCALE, b1 |-> 0, b2 |-> 0, a1 |-> 0, a2 |-> 0,
                    x1 |-> ZeroState, x2 |-> ZeroState,
                    y1 |-> ZeroState, y2 |-> ZeroState]

\* BiquadFilter::reset
BiquadReset(f) == [f EXCEPT !.x1 = ZeroState, !.x2 = ZeroState,
                            !.y1 = ZeroState, !.y2 = ZeroState]

\* BiquadFilter::setPeakingEQ
setPeakingEQ(f, sampleRate, freqIn, gainDb, qIn) ==
    LET freq == stdmax(20, stdmin(freqIn, (sampleRate * 45) \div 100))
        q == stdmax(100, stdmin(qIn, 10000))
        A == Pow10Div40(gainDb)
        cosw0 == CosW0(freq, sampleRate)
        sinw0 == SinW0(freq, sampleRate)
        alpha == (sinw0 * SCALE) \div (2 * q)
        b0 == SCALE + (alpha * A) \div SCALE
        b1 == -2 * cosw0
        b2 == SCALE - (alpha * A) \div SCALE
        a0 == SCALE + (alpha * SCALE) \div A
        a1 == -2 * cosw0
        a2 == SCALE - (alpha * SCALE) \div A
    IN [f EXCEPT !.b0 = (b0 * SCALE) \div a0, !.b1 = (b1 * SCALE) \div a0,
                 !.b2 = (b2 * SCALE) \div a0, !.a1 = (a1 * SCALE) \div a0,
                 !.a2 = (a2 * SCALE) \div a0]

\* BiquadFilter::process: the filter after the sample, and the sample returned
BiquadProcess(f, input, channel) ==
    LET x0 == input
        y0 == (f.b0 * x0 + f.b1 * f.x1[channel] + f.b2 * f.x2[channel]
               - f.a1 * f.y1[channel] - f.a2 * f.y2[channel]) \div SCALE
    IN [filter |-> [f EXCEPT !.x2[channel] = f.x1[channel], !.x1[channel] = x0,
                             !.y2[channel] = f.y1[channel], !.y1[channel] = y0],
        out |-> ToFloat(y0)]

----------------------------------------------------------------------------
(* The record of the last call: the operation, its band argument (NoBand    *)
(* when it has none), its value argument (0 when it has none), the samples  *)
(* passed in, what came back (the samples, or a getter's value), and the    *)
(* bands whose filter ran.                                                  *)

NoBand == -NUM_BANDS

CallRec(op, band, arg, in, out, applied) ==
    [op |-> op, band |-> band, arg |-> arg, in |-> in, out |-> out, applied |-> applied]

NoCall == CallRec("none", NoBand, 0, <<>>, <<>>, {})

\* one more call, by the program that runs
Counted(prog) ==
    /\ program = prog
    /\ nCalls < MaxCalls
    /\ nCalls' = nCalls + 1
    /\ UNCHANGED program

----------------------------------------------------------------------------
(* eq::EQProcessor *)

\* EQProcessor::updateFilter on a copy of the filter array
updateFilter(fs, sr, freqs, gains, qs, band) ==
    [fs EXCEPT ![band] = setPeakingEQ(@, sr, freqs[band], gains[band], qs[band])]

\* EQProcessor::updateAllFilters
updateAllFilters(fs, sr, freqs, gains, qs) ==
    [i \in Bands |-> setPeakingEQ(fs[i], sr, freqs[i], gains[i], qs[i])]

\* the index test of the band setters and getters
ValidBand(band) == band >= 0 /\ band < NUM_BANDS

\* the EQProcessor object as one value, and its assignment to the variables
EqObj == [frequencies_ |-> frequencies_, gains_ |-> gains_, qFactors_ |-> qFactors_,
          filters_ |-> filters_, bypass_ |-> bypass_, sampleRate_ |-> sampleRate_]

EqAssign(eq) ==
    /\ frequencies_' = eq.frequencies_
    /\ gains_' = eq.gains_
    /\ qFactors_' = eq.qFactors_
    /\ filters_' = eq.filters_
    /\ bypass_' = eq.bypass_
    /\ sampleRate_' = eq.sampleRate_

\* setBandGain taking gainDb as a step from the stored gain
EQ_setBandGain_relative(eq, band, gainDb) ==
    IF ValidBand(band)
    THEN [eq EXCEPT !.gains_[band] =
             stdmax(MIN_GAIN, stdmin(MAX_GAIN, IF gainDb = NaN THEN NaN ELSE @ + gainDb))]
    ELSE eq

\* EQProcessor::setBandGain on the object eq
EQ_setBandGain(eq, band, gainDb) ==
    IF ValidBand(band)
    THEN LET g == [eq.gains_ EXCEPT ![band] = stdmax(MIN_GAIN, stdmin(MAX_GAIN, gainDb))]
         IN [eq EXCEPT !.gains_ = g,
                       !.filters_ = updateFilter(eq.filters_, eq.sampleRate_, eq.frequencies_,
                                                 g, eq.qFactors_, band)]
    ELSE eq

\* EQProcessor::setBandFrequency on the object eq
EQ_setBandFrequency(eq, band, freq) ==
    IF ValidBand(band)
    THEN LET f == [eq.frequencies_ EXCEPT ![band] = stdmax(MIN_FREQ, stdmin(MAX_FREQ, freq))]
         IN [eq EXCEPT !.frequencies_ = f,
                       !.filters_ = updateFilter(eq.filters_, eq.sampleRate_, f,
                                                 eq.gains_, eq.qFactors_, band)]
    ELSE eq

\* EQProcessor::setBandQ on the object eq
EQ_setBandQ(eq, band, q) ==
    IF ValidBand(band)
    THEN LET qs == [eq.qFactors_ EXCEPT ![band] = stdmax(MIN_Q, stdmin(MAX_Q, q))]
         IN [eq EXCEPT !.qFactors_ = qs,
                       !.filters_ = updateFilter(eq.filters_, eq.sampleRate_, eq.frequencies_,
                                                 eq.gains_, qs, band)]
    ELSE eq

\* EQProcessor::setBypass on the object eq
EQ_setBypass(eq, bypass) == [eq EXCEPT !.bypass_ = bypass]

\* a call of setBandGain
setBandGain(band, gainDb) ==
    /\ EqAssign(EQ_setBandGain(EqObj, band, gainDb))
    /\ call' = CallRec("setBandGain", band, gainDb, <<>>, <<>>, {})

\* a call of setBandFrequency
setBandFrequency(band, freq) ==
    /\ EqAssign(EQ_setBandFrequency(EqObj, band, freq))
    /\ call' = CallRec("setBandFrequency", band, freq, <<>>, <<>>, {})

\* setBandQ clamping the band index into 0..4 instead of ignoring the call
setBandQ_clampIndex(band, q) ==
    LET b == IF band < 0 THEN 0 ELSE IF band >= NUM_BANDS THEN NUM_BANDS - 1 ELSE band
    IN /\ EqAssign(EQ_setBandQ(EqObj, b, q))
       /\ call' = CallRec("setBandQ", band, q, <<>>, <<>>, {})

\* a call of setBandQ
setBandQ(band, q) ==
    /\ EqAssign(EQ_setBandQ(EqObj, band, q))
    /\ call' = CallRec("setBandQ", band, q, <<>>, <<>>, {})

\* setBypass that also clears the filter memory
setBypass_resets(bypass) ==
    /\ bypass_' = bypass
    /\ filters_' = [i \in Bands |-> BiquadReset(filters_[i])]
    /\ UNCHANGED <<frequencies_, gains_, qFactors_, sampleRate_>>
    /\ call' = CallRec("setBypass", NoBand, 0, <<>>, <<>>, {})

\* a call of setBypass
setBypass(bypass) ==
    /\ EqAssign(EQ_setBypass(EqObj, bypass))
    /\ call' = CallRec("setBypass", NoBand, 0, <<>>, <<>>, {})

\* EQProcessor::setSampleRate
setSampleRate(sampleRate) ==
    /\ sampleRate_' = sampleRate
    /\ filters_' = updateAllFilters(filters_, sampleRate, frequencies_, gains_, qFactors_)
    /\ UNCHANGED <<frequencies_, gains_, qFactors_, bypass_>>
    /\ call' = CallRec("setSampleRate", NoBand, sampleRate, <<>>, <<>>, {})

\* EQProcessor::reset
reset ==
    /\ filters_' = [i \in Bands |-> BiquadReset(filters_[i])]
    /\ UNCHANGED <<frequencies_, gains_, qFactors_, bypass_, sampleRate_>>
    /\ call' = CallRec("reset", NoBand, 0, <<>>, <<>>, {})

\* EQProcessor::getBandGain
getBandGain(band) ==
    /\ call' = CallRec("getBandGain", band, 0, <<>>,
                       <<IF ValidBand(band) THEN gains_[band] ELSE 0>>, {})
    /\ UNCHANGED eqVars

\* EQProcessor::getBandFrequency
getBandFrequency(band) ==
    /\ call' = CallRec("getBandFrequency", band, 0, <<>>,
                       <<IF ValidBand(band) THEN frequencies_[band] ELSE 1000>>, {})
    /\ UNCHANGED eqVars

\* EQProcessor::getBandQ
getBandQ(band) ==
    /\ call' = CallRec("getBandQ", band, 0, <<>>,
                       <<IF ValidBand(band) THEN qFactors_[band] ELSE DEFAULT_Q>>, {})
    /\ UNCHANGED eqVars

\* the test with >= for >
BandActive_inclusive(gain) == stdabs(gain) >= GAIN_EPS

\* the test that decides whether a band's filter runs: std::abs(gains_[i]) > 0.01
BandActive(gain) == stdabs(gain) > GAIN_EPS

\* the band loop of process(): both channels through every active band from i on
RECURSIVE ProcessStereo(_, _, _, _, _)
ProcessStereo(fs, gains, i, left, right) ==
    IF i = NUM_BANDS THEN [filters |-> fs, out |-> <<left, right>>]
    ELSE IF BandActive(gains[i])
         THEN LET pl == BiquadProcess(fs[i], left, 0)
                  pr == BiquadProcess(pl.filter, right, 1)
              IN ProcessStereo([fs EXCEPT ![i] = pr.filter], gains, i + 1, pl.out, pr.out)
         ELSE ProcessStereo(fs, gains, i + 1, left, right)

\* the band loop of processMono() and of processBlock(): one sample of one channel
RECURSIVE ProcessSample(_, _, _, _, _)
ProcessSample(fs, gains, i, sample, ch) ==
    IF i = NUM_BANDS THEN [filters |-> fs, out |-> sample]
    ELSE IF BandActive(gains[i])
         THEN LET p == BiquadProcess(fs[i], sample, ch)
              IN ProcessSample([fs EXCEPT ![i] = p.filter], gains, i + 1, p.out, ch)
         ELSE ProcessSample(fs, gains, i + 1, sample, ch)

\* the frame and channel loops of processBlock(): k counts frame * numChannels + ch
RECURSIVE ProcessFrames(_, _, _, _, _, _)
ProcessFrames(fs, gains, buffer, k, numFrames, numChannels) ==
    IF k >= numFrames * numChannels THEN [filters |-> fs, out |-> buffer]
    ELSE LET ch == k % numChannels
         IN IF ch < 2
            THEN LET p == ProcessSample(fs, gains, 0, buffer[k + 1], ch)
                 IN ProcessFrames(p.filters, gains, [buffer EXCEPT ![k + 1] = p.out],
                                  k + 1, numFrames, numChannels)
            ELSE ProcessFrames(fs, gains, buffer, k + 1, numFrames, numChannels)

ActiveBands(gains) == {i \in Bands : BandActive(gains[i])}

\* EQProcessor::process
process(left, right) ==
    /\ IF bypass_
       THEN /\ UNCHANGED filters_
            /\ call' = CallRec("process", NoBand, 0, <<left, right>>, <<left, right>>, {})
       ELSE LET p == ProcessStereo(filters_, gains_, 0, left, right)
            IN /\ filters_' = p.filters
               /\ call' = CallRec("process", NoBand, 0, <<left, right>>, p.out,
                                  ActiveBands(gains_))
    /\ UNCHANGED <<frequencies_, gains_, qFactors_, bypass_, sampleRate_>>

\* EQProcessor::processMono
processMono(input) ==
    /\ IF bypass_
       THEN /\ UNCHANGED filters_
            /\ call' = CallRec("processMono", NoBand, 0, <<input>>, <<input>>, {})
       ELSE LET p == ProcessSample(filters_, gains_, 0, input, 0)
            IN /\ filters_' = p.filters
               /\ call' = CallRec("processMono", NoBand, 0, <<input>>, <<p.out>>,
                                  ActiveBands(gains_))
    /\ UNCHANGED <<frequencies_, gains_, qFactors_, bypass_, sampleRate_>>

\* EQProcessor::processBlock
processBlock(buffer, numFrames, numChannels) ==
    /\ IF bypass_
       THEN /\ UNCHANGED filters_
            /\ call' = CallRec("processBlock", NoBand, 0, buffer, buffer, {})
       ELSE LET p == ProcessFrames(filters_, gains_, buffer, 0, numFrames, numChannels)
            IN /\ filters_' = p.filters
               /\ call' = CallRec("processBlock", NoBand, 0, buffer, p.out,
                                  IF numFrames > 0 THEN ActiveBands(gains_) ELSE {})
    /\ UNCHANGED <<frequencies_, gains_, qFactors_, bypass_, sampleRate_>>

\* EQProcessor(): the constructor
EQInit ==
    /\ frequencies_ = DEFAULT_FREQUENCIES
    /\ gains_ = [i \in Bands |-> 0]
    /\ qFactors_ = [i \in Bands |-> DEFAULT_Q]
    /\ filters_ = [i \in Bands |-> NewBiquadFilter]
    /\ bypass_ = FALSE
    /\ sampleRate_ = 44100

----------------------------------------------------------------------------
(* audio::AudioAnalyzer: the equalizer setters and getters, each as one     *)
(* uninterrupted call on the control thread                                 *)

\* audio::BiquadFilter inside a value-initialized AudioAnalyzerImpl
NewAudioBiquadFilter == [b0 |-> 0, b1 |-> 0, b2 |-> 0, a1 |-> 0, a2 |-> 0,
                         x1 |-> ZeroState, x2 |-> ZeroState,
                         y1 |-> ZeroState, y2 |-> ZeroState]

\* EQBand::EQBand
EQBand(freq, g, qFactor) == [frequency |-> freq, gain |-> g, q |-> qFactor, enabled |-> TRUE]

\* EqualizerConfig: the member initializers
NewEqualizerConfig ==
    [bands |-> [i \in Bands |-> CASE i = 0 -> EQBand(60, 0, 700)
                                  [] i = 1 -> EQBand(250, 0, 700)
                                  [] i = 2 -> EQBand(1000, 0, 700)
                                  [] i = 3 -> EQBand(4000, 0, 700)
                                  [] i = 4 -> EQBand(12000, 0, 700)],
     enabled |-> TRUE]

\* setEQBandGain without the lower clamp
setEQBandGain_noLowerClamp(bandIndex, gainDb) ==
    /\ IF bandIndex >= 0 /\ bandIndex < NUM_BANDS
       THEN /\ eqConfig' = [eqConfig EXCEPT !.bands[bandIndex].gain = stdmin(1200, gainDb)]
            /\ eqNeedsUpdate' = TRUE
       ELSE UNCHANGED <<eqConfig, eqNeedsUpdate>>
    /\ UNCHANGED eqFilters
    /\ call' = CallRec("setEQBandGain", bandIndex, gainDb, <<>>, <<>>, {})

\* AudioAnalyzer::setEQBandGain
setEQBandGain(bandIndex, gainDb) ==
    /\ IF bandIndex >= 0 /\ bandIndex < NUM_BANDS
       THEN /\ eqConfig' = [eqConfig EXCEPT !.bands[bandIndex].gain =
                                                stdmax(-1200, stdmin(1200, gainDb))]
            /\ eqNeedsUpdate' = TRUE
       ELSE UNCHANGED <<eqConfig, eqNeedsUpdate>>
    /\ UNCHANGED eqFilters
    /\ call' = CallRec("setEQBandGain", bandIndex, gainDb, <<>>, <<>>, {})

\* AudioAnalyzer::setEQBandFrequency
setEQBandFrequency(bandIndex, frequency) ==
    /\ IF bandIndex >= 0 /\ bandIndex < NUM_BANDS
       THEN /\ eqConfig' = [eqConfig EXCEPT !.bands[bandIndex].frequency =
                                                stdmax(20, stdmin(20000, frequency))]
            /\ eqNeedsUpdate' = TRUE
       ELSE UNCHANGED <<eqConfig, eqNeedsUpdate>>
    /\ UNCHANGED eqFilters
    /\ call' = CallRec("setEQBandFrequency", bandIndex, frequency, <<>>, <<>>, {})

\* AudioAnalyzer::setEQBandQ
setEQBandQ(bandIndex, q) ==
    /\ IF bandIndex >= 0 /\ bandIndex < NUM_BANDS
       THEN /\ eqConfig' = [eqConfig EXCEPT !.bands[bandIndex].q =
                                                stdmax(100, stdmin(10000, q))]
            /\ eqNeedsUpdate' = TRUE
       ELSE UNCHANGED <<eqConfig, eqNeedsUpdate>>
    /\ UNCHANGED eqFilters
    /\ call' = CallRec("setEQBandQ", bandIndex, q, <<>>, <<>>, {})

\* AudioAnalyzer::setEQBandGain, setEQBandFrequency and setEQBandQ on a copy
\* of eqConfig
AA_setEQBandGain(cfg, bandIndex, gainDb) ==
    IF bandIndex >= 0 /\ bandIndex < NUM_BANDS
    THEN [cfg EXCEPT !.bands[bandIndex].gain = stdmax(-1200, stdmin(1200, gainDb))]
    ELSE cfg

AA_setEQBandFrequency(cfg, bandIndex, frequency) ==
    IF bandIndex >= 0 /\ bandIndex < NUM_BANDS
    THEN [cfg EXCEPT !.bands[bandIndex].frequency = stdmax(20, stdmin(20000, frequency))]
    ELSE cfg

AA_setEQBandQ(cfg, bandIndex, q) ==
    IF bandIndex >= 0 /\ bandIndex < NUM_BANDS
    THEN [cfg EXCEPT !.bands[bandIndex].q = stdmax(100, stdmin(10000, q))]
    ELSE cfg

\* SpectrumVisualizer::handleInput, key R: the loop over the bands from i on
RECURSIVE ResetBands(_, _)
ResetBands(cfg, i) ==
    IF i >= NUM_BANDS THEN cfg
    ELSE ResetBands(AA_setEQBandQ(AA_setEQBandFrequency(AA_setEQBandGain(cfg, i, 0),
                                                        i, DEFAULT_FREQUENCIES[i]),
                                  i, DEFAULT_Q),
                    i + 1)

\* SpectrumVisualizer::handleInput when key R is pressed: reset EQ to defaults
handleInput_KEY_R ==
    /\ eqConfig' = ResetBands(eqConfig, 0)
    /\ eqNeedsUpdate' = TRUE
    /\ UNCHANGED eqFilters
    /\ call' = CallRec("resetEQ", NoBand, 0, <<>>, <<>>, {})

\* AudioAnalyzer::getEQBandGain
getEQBandGain(bandIndex) ==
    /\ call' = CallRec("getEQBandGain", bandIndex, 0, <<>>,
                       <<IF bandIndex >= 0 /\ bandIndex < NUM_BANDS
                         THEN eqConfig.bands[bandIndex].gain ELSE 0>>, {})
    /\ UNCHANGED aaEqVars

\* AudioAnalyzer::getEQBandFrequency
getEQBandFrequency(bandIndex) ==
    /\ call' = CallRec("getEQBandFrequency", bandIndex, 0, <<>>,
                       <<IF bandIndex >= 0 /\ bandIndex < NUM_BANDS
                         THEN eqConfig.bands[bandIndex].frequency ELSE 1000>>, {})
    /\ UNCHANGED aaEqVars

\* AudioAnalyzer::getEQBandQ
getEQBandQ(bandIndex) ==
    /\ call' = CallRec("getEQBandQ", bandIndex, 0, <<>>,
                       <<IF bandIndex >= 0 /\ bandIndex < NUM_BANDS
                         THEN eqConfig.bands[bandIndex].q ELSE 1000>>, {})
    /\ UNCHANGED aaEqVars

\* AudioAnalyzer::AudioAnalyzer: the equalizer members of a new AudioAnalyzerImpl
AAEqInit ==
    /\ eqConfig = NewEqualizerConfig
    /\ eqFilters = [i \in Bands |-> NewAudioBiquadFilter]
    /\ eqNeedsUpdate = FALSE

----------------------------------------------------------------------------
(* The persisted state: PluginProcessor::getState / setState and            *)
(* PluginController::setComponentState over the host's IBStream.  The       *)
(* stream is counted in 32-bit words: an int32 takes one word, a double     *)
(* two, the low half of its representation first (kLittleEndian).           *)

\* the two halves of a double's representation
HALF == 2 ^ 16

\* words of a complete state: version, gain / frequency / Q of 5 bands, bypass
StateWords == 1 + NUM_BANDS * 3 * 2 + 1

\* IBStreamer::writeInt32
writeInt32(words, v) == Append(words, v)

\* IBStreamer::writeDouble
writeDouble(words, d) == words \o <<d % HALF, d \div HALF>>

\* a read that found the stream too short
ReadFailed(pos) == [ok |-> FALSE, val |-> 0, pos |-> pos]

\* IBStreamer::readInt32 at word position pos
readInt32(words, pos) ==
    IF pos + 1 <= Len(words)
    THEN [ok |-> TRUE, val |-> words[pos + 1], pos |-> pos + 1]
    ELSE ReadFailed(pos)

\* IBStreamer::readDouble at word position pos
readDouble(words, pos) ==
    IF pos + 2 <= Len(words)
    THEN [ok |-> TRUE, val |-> words[pos + 2] * HALF + words[pos + 1], pos |-> pos + 2]
    ELSE ReadFailed(pos)

\* std::log10 of a frequency in Hz, in 1/SCALE
Log10Freq(freq) ==
    CASE freq = 20 -> 1301 [] freq = 60 -> 1778 [] freq = 250 -> 2398
      [] freq = 1000 -> 3000 [] freq = 4000 -> 3602 [] freq = 12000 -> 4079
      [] freq = 20000 -> 4301

\* std::log10 of a Q factor, in 1/SCALE
Log10Q(q) == CASE q = 100 -> -1000 [] q = 707 -> -151 [] q = 10000 -> 1000

\* EQProcessor::getBandGain / getBandFrequency / getBandQ / isBypassed on the object eq
EQ_getBandGain(eq, band) == IF ValidBand(band) THEN eq.gains_[band] ELSE 0
EQ_getBandFrequency(eq, band) == IF ValidBand(band) THEN eq.frequencies_[band] ELSE 1000
EQ_getBandQ(eq, band) == IF ValidBand(band) THEN eq.qFactors_[band] ELSE DEFAULT_Q
EQ_isBypassed(eq) == eq.bypass_

\* the band values and the bypass flag of the object eq
EqValues(eq) == [gains |-> eq.gains_, frequencies |-> eq.frequencies_,
                 qFactors |-> eq.qFactors_, bypass |-> eq.bypass_]

\* getState's band loop writing the frequency before the gain
RECURSIVE GetStateBands_freqFirst(_, _, _)
GetStateBands_freqFirst(eq, words, band) ==
    IF band >= NUM_BANDS THEN words
    ELSE GetStateBands_freqFirst(eq,
             writeDouble(writeDouble(writeDouble(words, EQ_getBandFrequency(eq, band)),
                                     EQ_getBandGain(eq, band)),
                         EQ_getBandQ(eq, band)),
             band + 1)

\* getState: the band loop, from band on
RECURSIVE GetStateBands(_, _, _)
GetStateBands(eq, words, band) ==
    IF band >= NUM_BANDS THEN words
    ELSE GetStateBands(eq,
             writeDouble(writeDouble(writeDouble(words, EQ_getBandGain(eq, band)),
                                     EQ_getBandFrequency(eq, band)),
                         EQ_getBandQ(eq, band)),
             band + 1)

\* getState that writes only the low half of every double
GetStateWords_lowHalf(eq) ==
    LET ws == GetStateBands(eq, writeInt32(<<>>, 1), 0)
    IN writeInt32([k \in 1..Len(ws) |-> IF k > 1 /\ k % 2 = 1 THEN 0 ELSE ws[k]],
                  IF EQ_isBypassed(eq) THEN 1 ELSE 0)

\* PluginProcessor::getState: the words it writes to an empty stream
GetStateWords(eq) ==
    writeInt32(GetStateBands(eq, writeInt32(<<>>, 1), 0),
               IF EQ_isBypassed(eq) THEN 1 ELSE 0)

\* PluginProcessor::getState(state)
getState(null) ==
    /\ IF null
       THEN /\ UNCHANGED <<stream, saved>>
            /\ call' = CallRec("getState", NoBand, -1, <<>>, <<"kResultFalse">>, {})
       ELSE /\ stream' = GetStateWords(EqObj)
            /\ saved' = [valid |-> TRUE, values |-> EqValues(EqObj)]
            /\ call' = CallRec("getState", NoBand, StateWords, <<>>, <<"kResultOk">>, {})
    /\ UNCHANGED <<eqVars, params>>

\* setState: the band loop, from band on; every band is applied as soon as
\* its three doubles are read
RECURSIVE SetStateBands(_, _, _, _)
SetStateBands(eq, words, pos, band) ==
    IF band >= NUM_BANDS THEN [ok |-> TRUE, eq |-> eq, pos |-> pos]
    ELSE LET gain == readDouble(words, pos)
             freq == readDouble(words, gain.pos)
             q == readDouble(words, freq.pos)
         IN IF ~(gain.ok /\ freq.ok /\ q.ok)
            THEN [ok |-> FALSE, eq |-> eq, pos |-> pos]
            ELSE SetStateBands(
                     EQ_setBandQ(EQ_setBandFrequency(EQ_setBandGain(eq, band, gain.val),
                                                     band, freq.val),
                                 band, q.val),
                     words, q.pos, band + 1)

\* PluginProcessor::setState on the object eq: the result and the object after
SetState(eq, null, words) ==
    IF null THEN [result |-> "kResultFalse", eq |-> eq]
    ELSE LET version == readInt32(words, 0)
         IN IF ~version.ok THEN [result |-> "kResultFalse", eq |-> eq]
            ELSE LET bands == SetStateBands(eq, words, version.pos, 0)
                     bypass == readInt32(words, bands.pos)
                 IN IF ~bands.ok \/ ~bypass.ok
                    THEN [result |-> "kResultFalse", eq |-> bands.eq]
                    ELSE [result |-> "kResultOk",
                          eq |-> EQ_setBypass(bands.eq, bypass.val # 0)]

\* the stream handed to a restore: none, or the first n words of the saved one
StreamArg(null, n) == IF null THEN <<>> ELSE SubSeq(stream, 1, n)

\* PluginProcessor::setState(state)
setState(null, n) ==
    LET r == SetState(EqObj, null, StreamArg(null, n))
    IN /\ EqAssign(r.eq)
       /\ call' = CallRec("setState", NoBand, IF null THEN -1 ELSE n,
                          EqValues(EqObj), <<r.result>>, {})
       /\ UNCHANGED <<stream, saved, params>>

\* the parameter ids of plugin_ids.hpp
ParamIDs == 0..(NUM_BANDS * 3)
kBypass == NUM_BANDS * 3
getBandGainParam(band) == band * 3
getBandFreqParam(band) == 1 + band * 3
getBandQParam(band) == 2 + band * 3

\* PluginController::initialize: the default normalized values, in 1/SCALE
NewParameters ==
    [tag \in ParamIDs |->
        IF tag = kBypass THEN 0
        ELSE IF tag % 3 = 0 THEN 500
        ELSE IF tag % 3 = 2 THEN 424
        ELSE CASE tag = 1 -> 159 [] tag = 4 -> 366 [] tag = 7 -> 567
               [] tag = 10 -> 768 [] tag = 13 -> 926]

\* PluginController::setParamNormalized with no editor open: the parameter
\* keeps the value limited to [0, 1]
setParamNormalized(ps, tag, value) ==
    [ps EXCEPT ![tag] = IF value < 0 THEN 0 ELSE IF value > SCALE THEN SCALE ELSE value]

\* setComponentState: the band loop, from band on
RECURSIVE SetComponentBands(_, _, _, _)
SetComponentBands(ps, words, pos, band) ==
    IF band >= NUM_BANDS THEN [ok |-> TRUE, params |-> ps, pos |-> pos]
    ELSE LET gain == readDouble(words, pos)
             freq == readDouble(words, gain.pos)
             q == readDouble(words, freq.pos)
         IN IF ~(gain.ok /\ freq.ok /\ q.ok)
            THEN [ok |-> FALSE, params |-> ps, pos |-> pos]
            ELSE LET gainNorm == ((gain.val - MIN_GAIN) * SCALE) \div (MAX_GAIN - MIN_GAIN)
                     logMin == Log10Freq(MIN_FREQ)
                     logMax == Log10Freq(MAX_FREQ)
                     freqNorm == ((Log10Freq(freq.val) - logMin) * SCALE) \div (logMax - logMin)
                     qLogMin == Log10Q(MIN_Q)
                     qLogMax == Log10Q(MAX_Q)
                     qNorm == ((Log10Q(q.val) - qLogMin) * SCALE) \div (qLogMax - qLogMin)
                 IN SetComponentBands(
                        setParamNormalized(
                            setParamNormalized(
                                setParamNormalized(ps, getBandGainParam(band), gainNorm),
                                getBandFreqParam(band), freqNorm),
                            getBandQParam(band), qNorm),
                        words, q.pos, band + 1)

\* PluginController::setComponentState on the parameters ps
SetComponentState(ps, null, words) ==
    IF null THEN [result |-> "kResultFalse", params |-> ps]
    ELSE LET version == readInt32(words, 0)
         IN IF ~version.ok THEN [result |-> "kResultFalse", params |-> ps]
            ELSE LET bands == SetComponentBands(ps, words, version.pos, 0)
                     bypass == readInt32(words, bands.pos)
                 IN IF ~bands.ok \/ ~bypass.ok
                    THEN [result |-> "kResultFalse", params |-> bands.params]
                    ELSE [result |-> "kResultOk",
                          params |-> setParamNormalized(bands.params, kBypass,
                                         IF bypass.val # 0 THEN SCALE ELSE 0)]

\* PluginController::setComponentState(state)
setComponentState(null, n) ==
    LET r == SetComponentState(params, null, StreamArg(null, n))
    IN /\ params' = r.params
       /\ call' = CallRec("setComponentState", NoBand, IF null THEN -1 ELSE n,
                          params, <<r.result>>, {})
       /\ UNCHANGED <<eqVars, stream, saved>>

\* a new PluginProcessor and PluginController, and a host that holds an
\* empty stream
PersistInit ==
    /\ stream = <<>>
    /\ saved = [valid |-> FALSE, values |-> EqValues(EqObj)]
    /\ params = NewParameters

----------------------------------------------------------------------------
(* The standalone player's threads: the UI thread, which edits the bands,   *)
(* loads and starts files and asks for the spectrum, and the audio device   *)
(* thread, which runs audioCallback.  A call that shares data with the      *)
(* other thread is split at every access to the shared data.  The steps     *)
(* that fill the ring and compute the spectrum only move the thread on; the *)
(* values are followed in SpecAnalysis.                                     *)

\* AudioAnalyzerImpl::sampleRate: the member initializer, and the rate the decoder is opened at
ImplSampleRate == 44100

\* the stereo frames the decoder delivers in one callback
DecodedFrames == {<<1000, -500>>}

\* audio::BiquadFilter::reset
AudioBiquadReset(f) == [f EXCEPT !.x1 = ZeroState, !.x2 = ZeroState,
                                 !.y1 = ZeroState, !.y2 = ZeroState]

\* audio::BiquadFilter::setPeakingEQ
AudioSetPeakingEQ(f, sampleRate, freqIn, gainDb, qIn) ==
    LET freq == stdmax(20, stdmin(freqIn, (sampleRate * 45) \div 100))
        q == stdmax(100, stdmin(qIn, 10000))
        A == Pow10Div40(gainDb)
        cosw0 == CosW0(freq, sampleRate)
        sinw0 == SinW0(freq, sampleRate)
        alpha == (sinw0 * SCALE) \div (2 * q)
        b0 == SCALE + (alpha * A) \div SCALE
        b1 == -2 * cosw0
        b2 == SCALE - (alpha * A) \div SCALE
        a0 == SCALE + (alpha * SCALE) \div A
        a1 == -2 * cosw0
        a2 == SCALE - (alpha * SCALE) \div A
    IN [f EXCEPT !.b0 = (b0 * SCALE) \div a0, !.b1 = (b1 * SCALE) \div a0,
                 !.b2 = (b2 * SCALE) \div a0, !.a1 = (a1 * SCALE) \div a0,
                 !.a2 = (a2 * SCALE) \div a0]

\* audio::BiquadFilter::process
AudioBiquadProcess(f, input, channel) ==
    LET x0 == input
        y0 == (f.b0 * x0 + f.b1 * f.x1[channel] + f.b2 * f.x2[channel]
               - f.a1 * f.y1[channel] - f.a2 * f.y2[channel]) \div SCALE
    IN [filter |-> [f EXCEPT !.x2[channel] = f.x1[channel], !.x1[channel] = x0,
                             !.y2[channel] = f.y1[channel], !.y1[channel] = y0],
        out |-> ToFloat(y0)]

\* AudioAnalyzerImpl::updateEQFilters: the loop over the bands
UpdateEQFiltersLoop(fs, cfg) ==
    [i \in Bands |-> AudioSetPeakingEQ(fs[i], ImplSampleRate, cfg.bands[i].frequency,
                                       cfg.bands[i].gain, cfg.bands[i].q)]

\* the five coefficients of a filter
Coefficients(f) == <<f.b0, f.b1, f.b2, f.a1, f.a2>>

\* audioCallback: one sample through the bands in series, from band on
RECURSIVE CallbackSample(_, _, _, _, _)
CallbackSample(fs, cfg, band, sample, ch) ==
    IF band = NUM_BANDS THEN [filters |-> fs, out |-> sample]
    ELSE IF cfg.bands[band].enabled /\ stdabs(cfg.bands[band].gain) > GAIN_EPS
         THEN LET p == AudioBiquadProcess(fs[band], sample, ch)
              IN CallbackSample([fs EXCEPT ![band] = p.filter], cfg, band + 1, p.out, ch)
         ELSE CallbackSample(fs, cfg, band + 1, sample, ch)

\* audioCallback: the body of the EQ loop for one stereo frame
CallbackFrame(fs, cfg, frame) ==
    LET l == CallbackSample(fs, cfg, 0, frame[1], 0)
        r == CallbackSample(l.filters, cfg, 0, frame[2], 1)
    IN [filters |-> r.filters, out |-> <<l.out, r.out>>]

\* the bands whose filter the EQ loop runs on a sample under cfg
SelectedBands(cfg) ==
    {band \in Bands : cfg.bands[band].enabled /\ stdabs(cfg.bands[band].gain) > GAIN_EPS}

\* the frames the device asks for in one callback
FrameCounts == {2}

\* what is remembered of the running (or last) callback: the recomputes it
\* made, the edits the last of them served, whether its sample loop has run,
\* whether no edit was under way when it began or has begun since, the
\* frames asked for and read, whether the file ended, the frames the EQ loop
\* has done, the bands it ran on the first of them, and whether it ran
\* other bands on a later one
NewCallback(clean) ==
    [recomputes |-> 0, served |-> 0, filtered |-> FALSE, clean |-> clean,
     frameCount |-> 0, framesRead |-> 0, endOfFile |-> FALSE,
     frame |-> 0, selection |-> {}, mixed |-> FALSE]

\* what a step of the program prog leaves alone: the standalone player the
\* plugin's objects and the call record, both the saved stream
OtherSide(prog) ==
    IF prog = "standalone" THEN UNCHANGED <<eqVars, stateVars, anVars, instVars, call>>
    ELSE UNCHANGED <<stateVars, anVars, instVars>>

\* a step of the UI thread inside a call, and a step of the audio thread
UiStep(prog, from) ==
    /\ program = prog
    /\ ui = from
    /\ UNCHANGED <<program, nCalls, nCallbacks, aud, trVars>>
    /\ OtherSide(prog)

AudioStep(prog, from) ==
    /\ program = prog
    /\ aud = from
    /\ UNCHANGED <<program, nCalls, nCallbacks, ui, trVars>>
    /\ OtherSide(prog)

\* a call the UI thread begins
UiCall(prog) ==
    /\ Counted(prog)
    /\ ui = "idle"
    /\ UNCHANGED <<nCallbacks, aud, trVars>>
    /\ OtherSide(prog)

\* AudioAnalyzer::play
play ==
    /\ UiCall("standalone")
    /\ IF fileLoaded /\ ~playing
       THEN playing' = TRUE /\ deviceStarted' = TRUE
       ELSE UNCHANGED <<playing, deviceStarted>>
    /\ UNCHANGED <<ui, fileLoaded, aaEqVars, bufferMutex, spectrumMutex_,
                   cb, editsSinceUpdate, settled>>

\* AudioAnalyzer::pause
pause ==
    /\ UiCall("standalone")
    /\ playing' = FALSE
    /\ UNCHANGED <<ui, fileLoaded, deviceStarted, aaEqVars, bufferMutex, spectrumMutex_,
                   cb, editsSinceUpdate, settled>>

\* setEQBandGain / setEQBandFrequency / setEQBandQ up to the store into the
\* band's field
setEQBand_store(bandIndex, field, value) ==
    /\ UiCall("standalone")
    /\ IF bandIndex >= 0 /\ bandIndex < NUM_BANDS
       THEN /\ eqConfig' =
                  CASE field = "gain" ->
                         [eqConfig EXCEPT !.bands[bandIndex].gain =
                                              stdmax(-1200, stdmin(1200, value))]
                    [] field = "frequency" ->
                         [eqConfig EXCEPT !.bands[bandIndex].frequency =
                                              stdmax(20, stdmin(20000, value))]
                    [] field = "q" ->
                         [eqConfig EXCEPT !.bands[bandIndex].q =
                                              stdmax(100, stdmin(10000, value))]
            /\ ui' = "edit_flag"
            /\ settled' = FALSE
            /\ cb' = [cb EXCEPT !.clean = FALSE]
       ELSE UNCHANGED <<eqConfig, ui, settled, cb>>
    /\ UNCHANGED <<eqFilters, eqNeedsUpdate, fileLoaded, playing, deviceStarted,
                   bufferMutex, spectrumMutex_, editsSinceUpdate>>

\* setEQBandGain / setEQBandFrequency / setEQBandQ: eqNeedsUpdate = true
setEQBand_flag ==
    /\ UiStep("standalone", "edit_flag")
    /\ eqNeedsUpdate' = TRUE
    /\ editsSinceUpdate' = editsSinceUpdate + 1
    /\ ui' = "idle"
    /\ UNCHANGED <<eqConfig, eqFilters, fileLoaded, playing, deviceStarted,
                   bufferMutex, spectrumMutex_, cb, settled>>

\* AudioAnalyzer::getSpectrum: the call of computeSpectrum
getSpectrum ==
    /\ UiCall("standalone")
    /\ ui' = "cs_lock"
    /\ UNCHANGED <<aaEqVars, fileLoaded, playing, deviceStarted,
                   bufferMutex, spectrumMutex_, cb, editsSinceUpdate, settled>>

\* computeSpectrum: std::lock_guard lock(bufferMutex)
computeSpectrum_lock ==
    /\ UiStep("standalone", "cs_lock")
    /\ bufferMutex = "free"
    /\ bufferMutex' = "ui"
    /\ ui' = "cs_extract"
    /\ UNCHANGED <<aaEqVars, fileLoaded, playing, deviceStarted,
                   spectrumMutex_, cb, editsSinceUpdate, settled>>

\* computeSpectrum: the steps made under the lock, each moving on to the
\* next: the window is copied out of the ring (with RMS and peak), the Hann
\* window applied, the FFT and magnitudes computed, the bins reduced to bands
computeSpectrum_step(from, to) ==
    /\ UiStep("standalone", from)
    /\ ui' = to
    /\ UNCHANGED <<aaEqVars, fileLoaded, playing, deviceStarted,
                   bufferMutex, spectrumMutex_, cb, editsSinceUpdate, settled>>

computeSpectrum_extract == computeSpectrum_step("cs_extract", "cs_window")
computeSpectrum_window == computeSpectrum_step("cs_window", "cs_fft")
computeSpectrum_fft == computeSpectrum_step("cs_fft", "cs_bands")

\* computeSpectrum: the band reduction, then the lock_guard's scope ends
computeSpectrum_bands ==
    /\ UiStep("standalone", "cs_bands")
    /\ bufferMutex' = "free"
    /\ ui' = "idle"
    /\ UNCHANGED <<aaEqVars, fileLoaded, playing, deviceStarted,
                   spectrumMutex_, cb, editsSinceUpdate, settled>>

\* audioCallback begins on the started device: silence when not playing,
\* else the decoder fills the output block
audioCallback_enter ==
    /\ program = "standalone"
    /\ deviceStarted
    /\ aud = "idle"
    /\ nCallbacks < MaxCallbacks
    /\ nCallbacks' = nCallbacks + 1
    /\ \E frameCount \in FrameCounts :
          cb' = [NewCallback(ui # "edit_flag") EXCEPT !.frameCount = frameCount]
    /\ aud' = IF playing THEN "cb_read" ELSE "idle"
    /\ UNCHANGED <<program, nCalls, ui, aaEqVars, fileLoaded, playing, deviceStarted,
                   bufferMutex, spectrumMutex_, editsSinceUpdate, settled, trVars>>
    /\ OtherSide("standalone")

\* audioCallback: ma_decoder_read_pcm_frames delivers the frames asked for,
\* or the ones left in the file
audioCallback_read ==
    /\ program = "standalone"
    /\ aud = "cb_read"
    /\ LET framesRead == stdmin(cb.frameCount, totalFrames - decoderFrame)
       IN /\ decoderFrame' = decoderFrame + framesRead
          /\ cb' = [cb EXCEPT !.framesRead = framesRead]
          /\ aud' = IF framesRead < cb.frameCount THEN "cb_eof" ELSE "cb_test"
    /\ UNCHANGED <<program, nCalls, nCallbacks, ui, currentFrame, totalFrames>>
    /\ UNCHANGED <<aaEqVars, fileLoaded, playing, deviceStarted,
                   bufferMutex, spectrumMutex_, editsSinceUpdate, settled>>
    /\ OtherSide("standalone")

\* audioCallback: framesRead < frameCount, the end of the file: playing =
\* false, the decoder is rewound, currentFrame = 0
audioCallback_endOfFile ==
    /\ program = "standalone"
    /\ aud = "cb_eof"
    /\ playing' = FALSE
    /\ decoderFrame' = 0
    /\ currentFrame' = 0
    /\ cb' = [cb EXCEPT !.endOfFile = TRUE]
    /\ aud' = "cb_test"
    /\ UNCHANGED <<program, nCalls, nCallbacks, ui, totalFrames>>
    /\ UNCHANGED <<aaEqVars, fileLoaded, deviceStarted,
                   bufferMutex, spectrumMutex_, editsSinceUpdate, settled>>
    /\ OtherSide("standalone")

\* audioCallback: if (impl->eqNeedsUpdate)
audioCallback_testFlag ==
    /\ AudioStep("standalone", "cb_test")
    /\ aud' = IF eqNeedsUpdate THEN "cb_update" ELSE "cb_filter"
    /\ UNCHANGED <<aaEqVars, fileLoaded, playing, deviceStarted,
                   bufferMutex, spectrumMutex_, cb, editsSinceUpdate, settled>>

\* updateEQFilters: the loop that computes the five filters
updateEQFilters_loop ==
    /\ AudioStep("standalone", "cb_update")
    /\ eqFilters' = UpdateEQFiltersLoop(eqFilters, eqConfig)
    /\ cb' = [cb EXCEPT !.recomputes = @ + 1, !.served = editsSinceUpdate]
    /\ editsSinceUpdate' = 0
    /\ aud' = "cb_clear"
    /\ UNCHANGED <<eqConfig, eqNeedsUpdate, fileLoaded, playing, deviceStarted,
                   bufferMutex, spectrumMutex_, settled>>

\* updateEQFilters: eqNeedsUpdate = false
updateEQFilters_clear ==
    /\ AudioStep("standalone", "cb_clear")
    /\ eqNeedsUpdate' = FALSE
    /\ aud' = "cb_filter"
    /\ UNCHANGED <<eqConfig, eqFilters, fileLoaded, playing, deviceStarted,
                   bufferMutex, spectrumMutex_, cb, editsSinceUpdate, settled>>

\* the sample loop that tests the flag again and recomputes inside the loop
audioCallback_filter_retest ==
    /\ AudioStep("standalone", "cb_filter")
    /\ IF cb.frame < cb.framesRead /\ (cb.frame > 0 \/ eqConfig.enabled)
       THEN /\ \E frame \in DecodedFrames :
                  eqFilters' = CallbackFrame(IF eqNeedsUpdate
                                             THEN UpdateEQFiltersLoop(eqFilters, eqConfig)
                                             ELSE eqFilters, eqConfig, frame).filters
            /\ eqNeedsUpdate' = FALSE
            /\ cb' = [cb EXCEPT !.filtered = TRUE,
                                !.recomputes = IF eqNeedsUpdate THEN @ + 1 ELSE @,
                                !.frame = @ + 1]
            /\ UNCHANGED aud
       ELSE /\ aud' = "cb_position"
            /\ UNCHANGED <<eqFilters, eqNeedsUpdate, cb>>
    /\ UNCHANGED <<eqConfig, fileLoaded, playing, deviceStarted,
                   bufferMutex, spectrumMutex_, editsSinceUpdate, settled>>

\* audioCallback: if (impl->eqConfig.enabled), tested before the first
\* frame, and the EQ loop, one frame at a time: every band whose enabled and
\* gain fields select it filters the two samples of the frame; after the
\* last frame the volume is applied
audioCallback_filter ==
    /\ AudioStep("standalone", "cb_filter")
    /\ IF cb.frame < cb.framesRead /\ (cb.frame > 0 \/ eqConfig.enabled)
       THEN /\ \E frame \in DecodedFrames :
                  eqFilters' = CallbackFrame(eqFilters, eqConfig, frame).filters
            /\ cb' = [cb EXCEPT !.filtered = TRUE,
                                !.frame = @ + 1,
                                !.selection = IF cb.frame = 0 THEN SelectedBands(eqConfig) ELSE @,
                                !.mixed = @ \/ (cb.frame > 0 /\ SelectedBands(eqConfig) # cb.selection)]
            /\ UNCHANGED aud
       ELSE /\ aud' = "cb_position"
            /\ UNCHANGED <<eqFilters, cb>>
    /\ UNCHANGED <<eqConfig, eqNeedsUpdate, fileLoaded, playing, deviceStarted,
                   bufferMutex, spectrumMutex_, editsSinceUpdate, settled>>

\* audioCallback: impl->currentFrame += framesRead
audioCallback_position ==
    /\ program = "standalone"
    /\ aud = "cb_position"
    /\ currentFrame' = currentFrame + cb.framesRead
    /\ aud' = "cb_ingest"
    /\ UNCHANGED <<program, nCalls, nCallbacks, ui, totalFrames, decoderFrame>>
    /\ UNCHANGED <<aaEqVars, fileLoaded, playing, deviceStarted,
                   bufferMutex, spectrumMutex_, cb, editsSinceUpdate, settled>>
    /\ OtherSide("standalone")

\* processAudioData: std::lock_guard lock(bufferMutex)
processAudioData_lock ==
    /\ AudioStep("standalone", "cb_ingest")
    /\ bufferMutex = "free"
    /\ bufferMutex' = "audio"
    /\ aud' = "cb_copy"
    /\ UNCHANGED <<aaEqVars, fileLoaded, playing, deviceStarted,
                   spectrumMutex_, cb, editsSinceUpdate, settled>>

\* processAudioData: the mono mix is copied into the ring, the lock_guard's
\* scope ends and the callback returns
processAudioData_copy ==
    /\ AudioStep("standalone", "cb_copy")
    /\ bufferMutex' = "free"
    /\ aud' = "idle"
    /\ settled' = cb.clean
    /\ UNCHANGED <<aaEqVars, fileLoaded, playing, deviceStarted,
                   spectrumMutex_, cb, editsSinceUpdate>>

----------------------------------------------------------------------------
(* The plugin's threads: the host's audio thread, which runs                *)
(* PluginProcessor::process, and a thread that calls getSpectrum            *)

standaloneVars == <<aaEqVars, fileLoaded, playing, deviceStarted, bufferMutex,
                    cb, editsSinceUpdate, settled>>

\* PluginProcessor::process up to the spectrum block: no parameter changes;
\* without audio (no busses, or the silence flag set) it returns, else one
\* stereo sample goes through the equalizer into inputBuffer_
PluginProcessor_process(audio) ==
    /\ program = "plugin"
    /\ aud = "idle"
    /\ nCallbacks < MaxCallbacks
    /\ nCallbacks' = nCallbacks + 1
    /\ IF audio
       THEN /\ \E in \in StereoInputs : process(in[1], in[2])
            /\ aud' = "pp_lock"
       ELSE UNCHANGED <<eqVars, call, aud>>
    /\ UNCHANGED <<program, nCalls, ui, spectrumMutex_, standaloneVars, trVars>>
    /\ OtherSide("plugin")

\* process: std::lock_guard lock(spectrumMutex_)
PluginProcessor_process_lock ==
    /\ AudioStep("plugin", "pp_lock")
    /\ spectrumMutex_ = "free"
    /\ spectrumMutex_' = "audio"
    /\ aud' = "pp_window"
    /\ UNCHANGED <<eqVars, call, standaloneVars>>

\* process: the steps made under the lock: the Hann window is applied to
\* the copy of inputBuffer_, then fft::transform and fft::magnitude run
PluginProcessor_process_step(from, to) ==
    /\ AudioStep("plugin", from)
    /\ aud' = to
    /\ UNCHANGED <<eqVars, call, spectrumMutex_, standaloneVars>>

PluginProcessor_process_window == PluginProcessor_process_step("pp_window", "pp_fft")
PluginProcessor_process_fft == PluginProcessor_process_step("pp_fft", "pp_store")

\* process: spectrum_ is filled and handed to SharedSpectrumData, the
\* lock_guard's scope ends and process returns
PluginProcessor_process_store ==
    /\ AudioStep("plugin", "pp_store")
    /\ spectrumMutex_' = "free"
    /\ aud' = "idle"
    /\ UNCHANGED <<eqVars, call, standaloneVars>>

\* PluginProcessor::getSpectrum is called
PluginProcessor_getSpectrum ==
    /\ UiCall("plugin")
    /\ ui' = "gs_lock"
    /\ UNCHANGED <<eqVars, call, spectrumMutex_, standaloneVars>>

\* getSpectrum: std::lock_guard lock(spectrumMutex_)
PluginProcessor_getSpectrum_lock ==
    /\ UiStep("plugin", "gs_lock")
    /\ spectrumMutex_ = "free"
    /\ spectrumMutex_' = "ui"
    /\ ui' = "gs_copy"
    /\ UNCHANGED <<eqVars, call, standaloneVars>>

\* getSpectrum: spectrum_ is copied and the lock_guard's scope ends
PluginProcessor_getSpectrum_copy ==
    /\ UiStep("plugin", "gs_copy")
    /\ spectrumMutex_' = "free"
    /\ ui' = "idle"
    /\ UNCHANGED <<eqVars, call, standaloneVars>>

\* the plugin instances of one process, and the editors one controller can
\* create
Instances == {1, 2}
EditorIds == {1, 2}

\* the calling threads of the controller: the UI thread and a host thread
Threads == {"ui", "host"}

\* every PluginProcessor after construction (no block processed), the
\* static scratch buffer, the empty SharedSpectrumData, every PluginEditor
\* with its spectrum of zeros
InstancesInit ==
    /\ procs = [i \in Instances |->
                  [pc |-> "idle",
                   filters |-> [b \in 0..(NUM_BANDS - 1) |-> NewBiquadFilter],
                   inputBuffer_ |-> [k \in 0..(kFFTSize - 1) |-> 0],
                   inputBufferPos_ |-> 0,
                   spectrum_ |-> [k \in 0..(kFFTSize \div 2 - 1) |-> 0],
                   spectrumMutex_ |-> "free",
                   next |-> 0,
                   foreign |-> FALSE]]
    /\ tempBuffer = [k \in 1..kFFTSize |-> 0]
    /\ shared = [spectrum_ |-> <<>>, hasNewData_ |-> FALSE, mutex_ |-> 0,
                 producer |-> {}, lastSet |-> <<>>, fresh |-> FALSE, replaced |-> FALSE,
                 sets |-> 0]
    /\ editors = [i \in Instances |->
                    [pc |-> "idle",
                     newSpectrum |-> <<>>,
                     spectrum_ |-> [k \in 0..(kFFTSize - 1) |-> 0],
                     producer |-> {},
                     returned |-> <<>>]]

\* the PluginController after initialize: no editor, the mutex free, no
\* PluginEditor created, no call under way
ControllerInit ==
    /\ controller = [editor_ |-> 0, editorMutex_ |-> "free"]
    /\ views = [e \in EditorIds |-> "none"]
    /\ threads = [t \in Threads |->
                    [pc |-> "idle", editor |-> 0, left |-> 0, target |-> "none",
                     notified |-> 0]]

\* both threads idle, no mutex held, nothing loaded
RTInit ==
    /\ InstancesInit /\ ControllerInit
    /\ aud = "idle" /\ ui = "idle"
    /\ bufferMutex = "free" /\ spectrumMutex_ = "free"
    /\ fileLoaded = FALSE /\ playing = FALSE /\ deviceStarted = FALSE
    /\ currentFrame = 0 /\ totalFrames = 0 /\ decoderFrame = 0
    /\ nCallbacks = 0
    /\ cb = NewCallback(FALSE)
    /\ editsSinceUpdate = 0
    /\ settled = FALSE

----------------------------------------------------------------------------
(* namespace fft (fft.cpp).  A Complex is <<re, im>> in 1/SCALE; a vector   *)
(* is a sequence whose element k + 1 is the program's data[k].              *)

\* n & m and n | m on size_t
RECURSIVE BitAnd(_, _)
BitAnd(n, m) == IF n = 0 \/ m = 0 THEN 0
                ELSE (n % 2) * (m % 2) + 2 * BitAnd(n \div 2, m \div 2)

RECURSIVE BitOr(_, _)
BitOr(n, m) == IF n = 0 THEN m ELSE IF m = 0 THEN n
               ELSE (IF n % 2 = 1 \/ m % 2 = 1 THEN 1 ELSE 0) + 2 * BitOr(n \div 2, m \div 2)

\* n >> k
ShiftRight(n, k) == n \div (2 ^ k)

\* a test that takes every even length for a power of two
isPowerOf2_even(n) == n > 0 /\ n % 2 = 0

\* fft::isPowerOf2
isPowerOf2(n) == n > 0 /\ BitAnd(n, n - 1) = 0

\* fft::nextPowerOf2
nextPowerOf2(n) ==
    IF n = 0 THEN 1
    ELSE LET n0 == n - 1
             n1 == BitOr(n0, ShiftRight(n0, 1))
             n2 == BitOr(n1, ShiftRight(n1, 2))
             n4 == BitOr(n2, ShiftRight(n2, 4))
             n8 == BitOr(n4, ShiftRight(n4, 8))
             n16 == BitOr(n8, ShiftRight(n8, 16))
             n32 == BitOr(n16, ShiftRight(ShiftRight(n16, 16), 16))
         IN n32 + 1

\* Complex arithmetic
CAdd(a, b) == <<a[1] + b[1], a[2] + b[2]>>
CSub(a, b) == <<a[1] - b[1], a[2] - b[2]>>
CMul(a, b) == <<(a[1] * b[1] - a[2] * b[2]) \div SCALE, (a[1] * b[2] + a[2] * b[1]) \div SCALE>>
CConj(a) == <<a[1], -a[2]>>

\* std::sqrt on a non-negative number of the model, rounded down
RECURSIVE SqrtBetween(_, _, _)
SqrtBetween(x, lo, hi) ==
    IF lo >= hi THEN lo
    ELSE LET mid == (lo + hi + 1) \div 2
         IN IF mid * mid <= x THEN SqrtBetween(x, mid, hi) ELSE SqrtBetween(x, lo, mid - 1)

Sqrt(x) == SqrtBetween(x, 0, 2 ^ 15)

\* std::abs of a Complex
CAbs(a) == Sqrt(a[1] * a[1] + a[2] * a[2])

\* bitReversePermute: the while loop
RECURSIVE BitReverseWhile(_, _)
BitReverseWhile(j, k) == IF k <= j /\ k > 0 THEN BitReverseWhile(j - k, ShiftRight(k, 1))
                         ELSE j + k

\* bitReversePermute: the for loop, from i on
RECURSIVE BitReverseFrom(_, _, _)
BitReverseFrom(data, i, j) ==
    LET n == Len(data)
    IN IF i >= n - 1 THEN data
       ELSE LET swapped == IF i < j
                           THEN [data EXCEPT ![i + 1] = data[j + 1], ![j + 1] = data[i + 1]]
                           ELSE data
            IN BitReverseFrom(swapped, i + 1, BitReverseWhile(j, ShiftRight(n, 1)))

\* fft.cpp: bitReversePermute
bitReversePermute(data) == BitReverseFrom(data, 0, 0)

\* Complex(std::cos(angle), std::sin(angle)) for angle = -2 PI / len
Wlen(len) == CASE len = 2 -> <<-1000, 0>> [] len = 4 -> <<0, -1000>>
               [] len = 8 -> <<707, -707>> [] len = 16 -> <<924, -383>>

\* transformInPlace: data[i + j] = u + t and data[i + j + len / 2] = u - t
Butterfly(data, lo, hi, u, t) == [data EXCEPT ![lo] = CAdd(u, t), ![hi] = CSub(u, t)]

\* transformInPlace: the loop over j of one block
RECURSIVE ButterflyJ(_, _, _, _, _)
ButterflyJ(data, len, i, j, w) ==
    IF j >= len \div 2 THEN data
    ELSE ButterflyJ(Butterfly(data, i + j + 1, i + j + len \div 2 + 1,
                              data[i + j + 1], CMul(w, data[i + j + len \div 2 + 1])),
                    len, i, j + 1, CMul(w, Wlen(len)))

\* transformInPlace: the loop over the blocks i of one stage
RECURSIVE ButterflyI(_, _, _)
ButterflyI(data, len, i) ==
    IF i >= Len(data) THEN data
    ELSE ButterflyI(ButterflyJ(data, len, i, 0, <<SCALE, 0>>), len, i + len)

\* transformInPlace: the loop over the stages len = 2, 4, ..
RECURSIVE ButterflyLen(_, _)
ButterflyLen(data, len) ==
    IF len > Len(data) THEN data
    ELSE ButterflyLen(ButterflyI(data, len, 0), 2 * len)

\* fft::transformInPlace: whether it threw, and the data after the call
transformInPlace(data) ==
    IF ~isPowerOf2(Len(data)) THEN [thrown |-> TRUE, data |-> data]
    ELSE IF Len(data) <= 1 THEN [thrown |-> FALSE, data |-> data]
    ELSE [thrown |-> FALSE, data |-> ButterflyLen(bitReversePermute(data), 2)]

\* fft::transform: whether it threw, and the vector returned
transform(signal) ==
    LET n == nextPowerOf2(Len(signal))
        data == [k \in 1..n |-> IF k <= Len(signal) THEN <<signal[k], 0>> ELSE <<0, 0>>]
    IN transformInPlace(data)

\* inverse without the two conjugations
inverse_noConjugate(spectrum) ==
    LET n == Len(spectrum)
        r == transformInPlace(spectrum)
    IN IF r.thrown THEN [thrown |-> TRUE, data |-> <<>>]
       ELSE [thrown |-> FALSE,
             data |-> [k \in 1..n |-> <<r.data[k][1] \div n, r.data[k][2] \div n>>]]

\* fft::inverse: whether it threw, and the vector returned
inverse(spectrum) ==
    LET n == Len(spectrum)
        r == transformInPlace([k \in 1..n |-> CConj(spectrum[k])])
    IN IF r.thrown THEN [thrown |-> TRUE, data |-> <<>>]
       ELSE [thrown |-> FALSE,
             data |-> [k \in 1..n |-> <<CConj(r.data[k])[1] \div n, CConj(r.data[k])[2] \div n>>]]

\* fft::magnitude
magnitude(spectrum) == [k \in 1..Len(spectrum) |-> CAbs(spectrum[k])]

\* 0.5 * (1.0 - std::cos(2.0 * PI * i / (n - 1))) for a signal of n samples
HannMultiplier(i, n) ==
    CASE n = 1 -> NaN
      [] n = 2 -> 0
      [] n = 3 -> IF i = 1 THEN 1000 ELSE 0
      [] n = 4 -> IF i \in {1, 2} THEN 750 ELSE 0
      [] n = 5 -> IF i = 2 THEN 1000 ELSE IF i \in {1, 3} THEN 500 ELSE 0
      [] n = 8 -> CASE i \in {0, 7} -> 0 [] i \in {1, 6} -> 188
                    [] i \in {2, 5} -> 611 [] i \in {3, 4} -> 950

\* fft::applyHannWindow
applyHannWindow(signal) ==
    [k \in 1..Len(signal) |->
        IF HannMultiplier(k - 1, Len(signal)) = NaN THEN NaN
        ELSE (signal[k] * HannMultiplier(k - 1, Len(signal))) \div SCALE]

----------------------------------------------------------------------------
(* The analysis path: the ring of mono samples, the band table and the      *)
(* spectrum frame of the standalone player (AudioAnalyzerImpl), and the     *)
(* input buffer and spectrum of the plugin (PluginProcessor).  A vector of  *)
(* the program is a function on 0 .. size - 1.  processAudioData,           *)
(* computeSpectrum and stop each hold bufferMutex from their first access   *)
(* to the shared data to their last, so each is one step here.              *)

\* std::vector<T>(n, 0)
ZeroVector(n) == [k \in 0..(n - 1) |-> 0]

\* v.size()
Size(v) == Cardinality(DOMAIN v)

\* audio::AnalyzerConfig (hopSize is read by nothing)
AnalyzerConfig(fftSize, smoothingFactor, minFrequency, maxFrequency, numBands, useLogScale) ==
    [fftSize |-> fftSize, smoothingFactor |-> smoothingFactor,
     minFrequency |-> minFrequency, maxFrequency |-> maxFrequency,
     numBands |-> numBands, useLogScale |-> useLogScale]

\* audio::SpectrumData
SpectrumData(magnitudes, frequencies, peakFrequency, rmsLevel, peakLevel) ==
    [magnitudes |-> magnitudes, frequencies |-> frequencies, peakFrequency |-> peakFrequency,
     rmsLevel |-> rmsLevel, peakLevel |-> peakLevel]

\* std::log10 of a band edge in Hz, in 1/SCALE, and std::pow(10.0, x) back to Hz
Log10Hz(f) == CASE f = 20 -> 1301 [] f = 20000 -> 4301 [] f = 22050 -> 4343

Pow10Hz(x) == CASE x = 1301 -> 20 [] x = 2301 -> 200 [] x = 2801 -> 632
                [] x = 3301 -> 2000 [] x = 4301 -> 20000

\* updateBands without "if (binHigh <= binLow) binHigh = binLow + 1"
BinRange_unforced(binLow, binHigh) == <<binLow, binHigh>>

\* updateBands: the pair stored for one band
BinRange(binLow, binHigh) ==
    IF binHigh <= binLow THEN <<binLow, binLow + 1>> ELSE <<binLow, binHigh>>

\* static_cast<size_t>(freq / binWidth) with binWidth = sampleRate / fftSize
BinOf(freq, sampleRate, fftSize) == (freq * fftSize) \div sampleRate

\* updateBands: freqLow and freqHigh of band i
BandEdges(cfg, sampleRate, i) ==
    LET minFreq == cfg.minFrequency
        maxFreq == stdmin(cfg.maxFrequency, sampleRate \div 2)
    IN IF cfg.useLogScale
       THEN LET logMin == Log10Hz(minFreq)
                logMax == Log10Hz(maxFreq)
                logStep == (logMax - logMin) \div cfg.numBands
            IN <<Pow10Hz(logMin + i * logStep), Pow10Hz(logMin + (i + 1) * logStep)>>
       ELSE LET freqStep == (maxFreq - minFreq) \div cfg.numBands
                freqLow == minFreq + i * freqStep
            IN <<freqLow, freqLow + freqStep>>

\* AudioAnalyzer::updateBands: the new bandBins
updateBands(cfg, sampleRate) ==
    [i \in 0..(cfg.numBands - 1) |->
        LET e == BandEdges(cfg, sampleRate, i)
        IN BinRange(BinOf(e[1], sampleRate, cfg.fftSize), BinOf(e[2], sampleRate, cfg.fftSize))]

\* AudioAnalyzer::updateBands: the new currentSpectrum.frequencies, the
\* centre of every band in Hz
BandCentres(cfg, sampleRate) ==
    [i \in 0..(cfg.numBands - 1) |->
        LET e == BandEdges(cfg, sampleRate, i)
        IN IF cfg.useLogScale THEN Sqrt(e[1] * e[2]) ELSE (e[1] + e[2]) \div 2]

\* computeSpectrum reading the ring from the write cursor on
ExtractWindow_fromCursor(buffer, writePos, fftSize) ==
    [k \in 1..fftSize |-> buffer[(writePos + k - 1) % Size(buffer)]]

\* computeSpectrum: the samples copied out of the ring
ExtractWindow(buffer, writePos, fftSize) ==
    LET readPos == (writePos + Size(buffer) - fftSize) % Size(buffer)
    IN [k \in 1..fftSize |-> buffer[(readPos + k - 1) % Size(buffer)]]

RECURSIVE SumSeq(_)
SumSeq(s) == IF s = <<>> THEN 0 ELSE Head(s) + SumSeq(Tail(s))

RECURSIVE PeakOf(_)
PeakOf(s) == IF s = <<>> THEN 0 ELSE stdmax(PeakOf(Tail(s)), stdabs(Head(s)))

\* computeSpectrum: rms and peak of the window
RmsLevel(samples) == Sqrt(SumSeq([k \in 1..Len(samples) |-> samples[k] * samples[k]])
                          \div Len(samples))

\* m *= 2.0 / fftSize for every magnitude
Normalized(magnitudes, fftSize) ==
    [k \in 1..Len(magnitudes) |-> (magnitudes[k] * 2) \div fftSize]

\* the band magnitude taken as the average of the bins read
BandMag_average(r) == r.sum \div r.count

\* computeSpectrum: double bandMag = bandMax
BandMag(r) == r.bandMax

\* computeSpectrum: the loop over the bins of one band, startBin..endBin
\* inclusive; r carries sum, count, bandMax, maxMag and peakBin
RECURSIVE BinLoop(_, _, _, _)
BinLoop(magnitudes, bin, endBin, r) ==
    IF bin > endBin THEN r
    ELSE LET mag == magnitudes[bin + 1]
             r1 == [r EXCEPT !.sum = @ + mag, !.count = @ + 1,
                             !.bandMax = IF mag > r.bandMax THEN mag ELSE @]
             r2 == IF mag > r.maxMag THEN [r1 EXCEPT !.maxMag = mag, !.peakBin = bin] ELSE r1
         IN BinLoop(magnitudes, bin + 1, endBin, r2)

\* computeSpectrum: the smoothing of one band after its bins were read with
\* the result r, and what the band loop carries on
Smoothed(cfg, acc, band, r, startBin, endBin) ==
    LET s == (cfg.smoothingFactor * acc.smoothed[band]
              + (SCALE - cfg.smoothingFactor) * BandMag(r)) \div SCALE
    IN [acc EXCEPT !.smoothed[band] = s, !.magnitudes[band] = s,
                   !.maxMag = r.maxMag, !.peakBin = r.peakBin,
                   !.binsRead[band] = startBin..endBin]

\* computeSpectrum: the loop over the bands; acc carries smoothedMagnitudes,
\* currentSpectrum.magnitudes, maxMag, peakBin and the bins read per band
RECURSIVE BandLoop(_, _, _, _, _)
BandLoop(cfg, bins, magnitudes, band, acc) ==
    IF band >= cfg.numBands THEN acc
    ELSE LET startBin == bins[band][1]
             halfSize == cfg.fftSize \div 2
             endBin == stdmin(bins[band][2], halfSize - 1)
         IN IF startBin >= halfSize
            THEN BandLoop(cfg, bins, magnitudes, band + 1,
                          [acc EXCEPT !.magnitudes[band] = 0, !.binsRead[band] = {}])
            ELSE BandLoop(cfg, bins, magnitudes, band + 1,
                          Smoothed(cfg, acc, band,
                                   BinLoop(magnitudes, startBin, endBin,
                                           [sum |-> 0, count |-> 0, bandMax |-> 0,
                                            maxMag |-> acc.maxMag, peakBin |-> acc.peakBin]),
                                   startBin, endBin))

\* history: what the last analysis read and computed
NoTick == [window |-> <<>>, magnitudes |-> <<>>, binsRead |-> <<>>, peakBin |-> 0]

\* the configuration of the AudioAnalyzer constructor at a small FFT size
DefaultConfig == AnalyzerConfig(8, 700, 20, 20000, 3, TRUE)

\* AudioAnalyzerImpl and PluginProcessor after construction, setConfig(cfg)
\* and initialize()
AnalysisInit(cfg) ==
    /\ config = cfg
    /\ sampleBuffer = ZeroVector(cfg.fftSize * 2)
    /\ bufferWritePos = 0
    /\ bandBins = updateBands(cfg, ImplSampleRate)
    /\ smoothedMagnitudes = ZeroVector(cfg.numBands)
    /\ currentSpectrum = SpectrumData(ZeroVector(cfg.numBands),
                                      BandCentres(cfg, ImplSampleRate), 0, 0, 0)
    /\ inputBuffer_ = ZeroVector(kFFTSize)
    /\ inputBufferPos_ = 0
    /\ spectrum_ = ZeroVector(kFFTSize \div 2)
    /\ written = <<>>
    /\ tick = NoTick

pluginAnVars == <<inputBuffer_, inputBufferPos_, spectrum_>>
standaloneAnVars == <<config, sampleBuffer, bufferWritePos, bandBins, smoothedMagnitudes,
                      currentSpectrum>>

\* one frame mixed to mono by processAudioData: the float sum of the
\* channels divided by the channel count
MonoMix(samples, i, channels) ==
    ToFloat(SumSeq([c \in 1..channels |-> samples[i * channels + c]]) \div channels)

\* processAudioData: the frame loop from frame i on
RECURSIVE WriteFrames(_, _, _, _, _)
WriteFrames(ring, samples, i, frameCount, channels) ==
    IF i >= frameCount THEN ring
    ELSE WriteFrames([buffer |-> [ring.buffer EXCEPT ![ring.pos] = MonoMix(samples, i, channels)],
                      pos |-> (ring.pos + 1) % Size(ring.buffer),
                      written |-> Append(ring.written, MonoMix(samples, i, channels))],
                     samples, i + 1, frameCount, channels)

\* AudioAnalyzer::processAudioData
processAudioData(samples, frameCount, channels) ==
    LET ring == WriteFrames([buffer |-> sampleBuffer, pos |-> bufferWritePos, written |-> written],
                            samples, 0, frameCount, channels)
    IN /\ sampleBuffer' = ring.buffer
       /\ bufferWritePos' = ring.pos
       /\ written' = ring.written
       /\ call' = CallRec("processAudioData", NoBand, frameCount, samples, <<>>, {})
       /\ UNCHANGED <<config, bandBins, smoothedMagnitudes, currentSpectrum, tick,
                      pluginAnVars>>

\* AudioAnalyzer::getSpectrum: computeSpectrum, then the frame is returned
computeSpectrum ==
    \E samples \in {ExtractWindow(sampleBuffer, bufferWritePos, config.fftSize)} :
    \E magnitudes \in {Normalized(magnitude(transform(applyHannWindow(samples)).data),
                                  config.fftSize)} :
    \E acc \in {BandLoop(config, bandBins, magnitudes, 0,
                         [smoothed |-> smoothedMagnitudes,
                          magnitudes |-> currentSpectrum.magnitudes,
                          maxMag |-> 0, peakBin |-> 0,
                          binsRead |-> [b \in 0..(config.numBands - 1) |-> {}]])} :
       /\ smoothedMagnitudes' = acc.smoothed
       /\ currentSpectrum' = SpectrumData(acc.magnitudes, currentSpectrum.frequencies,
                                          (acc.peakBin * ImplSampleRate) \div config.fftSize,
                                          RmsLevel(samples), PeakOf(samples))
       /\ tick' = [window |-> samples, magnitudes |-> magnitudes,
                   binsRead |-> acc.binsRead, peakBin |-> acc.peakBin]
       /\ call' = CallRec("getSpectrum", NoBand, 0, <<>>, <<>>, {})
       /\ UNCHANGED <<config, sampleBuffer, bufferWritePos, bandBins, written, pluginAnVars>>

\* the lengths, in frames, of the files that are opened
FileLengths == {1, 3}

\* a stop that rewinds the decoder but keeps the position
stop_keepPosition ==
    /\ Counted("standalone")
    /\ ui = "idle" /\ aud = "idle" /\ bufferMutex = "free"
    /\ playing' = FALSE
    /\ IF fileLoaded
       THEN deviceStarted' = FALSE /\ decoderFrame' = 0 /\ UNCHANGED currentFrame
       ELSE UNCHANGED <<deviceStarted, decoderFrame, currentFrame>>
    /\ smoothedMagnitudes' = ZeroVector(Size(smoothedMagnitudes))
    /\ currentSpectrum' = [currentSpectrum EXCEPT
                              !.magnitudes = ZeroVector(Size(currentSpectrum.magnitudes))]
    /\ call' = CallRec("stop", NoBand, currentFrame, <<>>, <<>>, {})
    /\ UNCHANGED <<config, sampleBuffer, bufferWritePos, bandBins, written, tick, pluginAnVars>>
    /\ UNCHANGED <<eqVars, aaEqVars, stateVars, aud, ui, bufferMutex, spectrumMutex_,
                   fileLoaded, totalFrames, instVars, nCallbacks, cb, editsSinceUpdate,
                   settled>>

\* AudioAnalyzer::stop: playback ends; with a file loaded the device is
\* stopped, which waits for a running callback, and the decoder and the
\* position go back to frame 0; the spectrum is cleared under bufferMutex.
\* The call record keeps the position the call found.
stop ==
    /\ Counted("standalone")
    /\ ui = "idle" /\ aud = "idle" /\ bufferMutex = "free"
    /\ playing' = FALSE
    /\ IF fileLoaded
       THEN deviceStarted' = FALSE /\ decoderFrame' = 0 /\ currentFrame' = 0
       ELSE UNCHANGED <<deviceStarted, decoderFrame, currentFrame>>
    /\ smoothedMagnitudes' = ZeroVector(Size(smoothedMagnitudes))
    /\ currentSpectrum' = [currentSpectrum EXCEPT
                              !.magnitudes = ZeroVector(Size(currentSpectrum.magnitudes))]
    /\ call' = CallRec("stop", NoBand, currentFrame, <<>>, <<>>, {})
    /\ UNCHANGED <<config, sampleBuffer, bufferWritePos, bandBins, written, tick, pluginAnVars>>
    /\ UNCHANGED <<eqVars, aaEqVars, stateVars, aud, ui, bufferMutex, spectrumMutex_,
                   fileLoaded, totalFrames, instVars, nCallbacks, cb, editsSinceUpdate,
                   settled>>

\* AudioAnalyzer::loadFile: stop(), the decoder and device of the file
\* loaded before are closed, then the decoder and device are opened (ok) on
\* a file of length frames, or not; on success the position is 0, the band
\* table is rebuilt, the filters are computed for the sample rate and their
\* memory cleared
loadFile(ok, length) ==
    /\ Counted("standalone")
    /\ ui = "idle" /\ aud = "idle" /\ bufferMutex = "free"
    /\ playing' = FALSE
    /\ deviceStarted' = FALSE
    /\ fileLoaded' = ok
    /\ smoothedMagnitudes' = ZeroVector(Size(smoothedMagnitudes))
    /\ currentSpectrum' = [currentSpectrum EXCEPT
                              !.magnitudes = ZeroVector(Size(currentSpectrum.magnitudes)),
                              !.frequencies = IF ok THEN BandCentres(config, ImplSampleRate)
                                              ELSE @]
    /\ decoderFrame' = IF fileLoaded \/ ok THEN 0 ELSE decoderFrame
    /\ currentFrame' = IF fileLoaded \/ ok THEN 0 ELSE currentFrame
    /\ IF ok
       THEN /\ totalFrames' = length
            /\ bandBins' = updateBands(config, ImplSampleRate)
            /\ eqFilters' = [i \in Bands |->
                                AudioBiquadReset(UpdateEQFiltersLoop(eqFilters, eqConfig)[i])]
            /\ eqNeedsUpdate' = FALSE
            /\ editsSinceUpdate' = 0
       ELSE UNCHANGED <<totalFrames, bandBins, eqFilters, eqNeedsUpdate, editsSinceUpdate>>
    /\ call' = CallRec("loadFile", NoBand, IF ok THEN length ELSE 0, <<>>, <<ok>>, {})
    /\ UNCHANGED <<config, sampleBuffer, bufferWritePos, written, tick, pluginAnVars>>
    /\ UNCHANGED <<eqVars, stateVars, eqConfig, aud, ui, bufferMutex, spectrumMutex_,
                   instVars, nCallbacks, cb, settled>>

\* AudioAnalyzer::togglePlayPause
togglePlayPause == IF playing THEN pause ELSE play

\* the positions, in seconds, that seek is called with
SeekInputs == {0, 1}

\* AudioAnalyzer::seek: nothing without a file, else the decoder and the
\* position go to the frame of positionSeconds, at most totalFrames
seek(positionSeconds) ==
    /\ Counted("standalone")
    /\ ui = "idle"
    /\ UNCHANGED <<nCallbacks, aud>>
    /\ OtherSide("standalone")
    /\ IF fileLoaded
       THEN LET frame == stdmin(positionSeconds * ImplSampleRate, totalFrames)
            IN decoderFrame' = frame /\ currentFrame' = frame
       ELSE UNCHANGED <<decoderFrame, currentFrame>>
    /\ UNCHANGED <<ui, fileLoaded, playing, deviceStarted, totalFrames, aaEqVars,
                   bufferMutex, spectrumMutex_, cb, editsSinceUpdate, settled>>

\* AudioAnalyzer::getPosition, in microseconds
getPosition ==
    IF ImplSampleRate = 0 THEN 0 ELSE (currentFrame * 1000000) \div ImplSampleRate

\* std::vector::resize(n, 0): the elements kept, zeros appended
Resize(v, n) == [k \in 0..(n - 1) |-> IF k \in DOMAIN v THEN v[k] ELSE 0]

\* AudioAnalyzer::initialize: the buffers are resized for the configuration
\* held, with no lock taken, and updateBands() runs; the write cursor stays
initialize ==
    /\ sampleBuffer' = Resize(sampleBuffer, config.fftSize * 2)
    /\ smoothedMagnitudes' = Resize(smoothedMagnitudes, config.numBands)
    /\ currentSpectrum' = [currentSpectrum EXCEPT
                              !.magnitudes = Resize(@, config.numBands),
                              !.frequencies = BandCentres(config, ImplSampleRate)]
    /\ bandBins' = updateBands(config, ImplSampleRate)
    /\ call' = CallRec("initialize", NoBand, 0, <<>>, <<TRUE>>, {})
    /\ UNCHANGED <<config, bufferWritePos, written, tick, pluginAnVars>>

\* AudioAnalyzer::setConfig: the configuration is stored, the buffers are
\* resized for it, with no lock taken, and updateBands() runs; the write
\* cursor stays
setConfig(cfg) ==
    /\ config' = cfg
    /\ sampleBuffer' = Resize(sampleBuffer, cfg.fftSize * 2)
    /\ smoothedMagnitudes' = Resize(smoothedMagnitudes, cfg.numBands)
    /\ currentSpectrum' = [currentSpectrum EXCEPT
                              !.magnitudes = Resize(@, cfg.numBands),
                              !.frequencies = BandCentres(cfg, ImplSampleRate)]
    /\ bandBins' = updateBands(cfg, ImplSampleRate)
    /\ call' = CallRec("setConfig", NoBand, cfg.fftSize, <<>>, <<>>, {})
    /\ UNCHANGED <<bufferWritePos, written, tick, pluginAnVars>>

\* PluginProcessor::process: the sample loop from sample i on, stereo or mono
RECURSIVE PluginFrames(_, _, _, _, _)
PluginFrames(st, in, i, numSamples, numChannels) ==
    IF i >= numSamples THEN st
    ELSE LET p == IF numChannels >= 2
                  THEN IF st.bypass THEN [filters |-> st.filters, out |-> <<in[1][i + 1], in[2][i + 1]>>]
                       ELSE ProcessStereo(st.filters, gains_, 0, in[1][i + 1], in[2][i + 1])
                  ELSE IF st.bypass THEN [filters |-> st.filters, out |-> in[1][i + 1]]
                       ELSE ProcessSample(st.filters, gains_, 0, in[1][i + 1], 0)
             mono == IF numChannels >= 2 THEN ToFloat((p.out[1] + p.out[2]) \div 2) ELSE p.out
         IN PluginFrames([st EXCEPT !.filters = p.filters,
                                    !.buffer[st.pos] = mono,
                                    !.pos = (st.pos + 1) % kFFTSize,
                                    !.written = Append(@, mono)],
                         in, i + 1, numSamples, numChannels)

\* PluginProcessor::process: the window copied out of inputBuffer_
PluginWindow(buffer, pos) == [k \in 1..kFFTSize |-> buffer[(pos + k - 1) % kFFTSize]]

\* PluginProcessor::process on a block of numSamples samples in numChannels
\* channels; silent: the input bus carries the silence flag
PluginProcessor_processData(in, numSamples, numChannels, silent) ==
    /\ IF silent
       THEN UNCHANGED <<filters_, pluginAnVars, written, tick>>
       ELSE \E st \in {PluginFrames([filters |-> filters_, bypass |-> bypass_,
                                      buffer |-> inputBuffer_, pos |-> inputBufferPos_,
                                      written |-> written],
                                     in, 0, IF numChannels >= 1 THEN numSamples ELSE 0,
                                     numChannels)} :
            \E samples \in {PluginWindow(st.buffer, st.pos)} :
            \E magnitudes \in
                  {Normalized(magnitude(transform(
                       [k \in 1..kFFTSize |->
                           (samples[k] * HannMultiplier(k - 1, kFFTSize)) \div SCALE]).data),
                              kFFTSize)} :
               /\ filters_' = st.filters
               /\ inputBuffer_' = st.buffer
               /\ inputBufferPos_' = st.pos
               /\ written' = st.written
               /\ spectrum_' = [k \in 0..(kFFTSize \div 2 - 1) |-> ToFloat(magnitudes[k + 1])]
               /\ tick' = [window |-> samples, magnitudes |-> magnitudes,
                           binsRead |-> <<>>, peakBin |-> 0]
    /\ call' = CallRec("process", NoBand, numSamples, <<in, silent>>, <<>>, {})
    /\ UNCHANGED <<frequencies_, gains_, qFactors_, bypass_, sampleRate_, standaloneAnVars>>

\* PluginProcessor::setActive
setActive(state) ==
    /\ IF state
       THEN /\ filters_' = [i \in Bands |-> BiquadReset(filters_[i])]
            /\ inputBuffer_' = ZeroVector(Size(inputBuffer_))
            /\ inputBufferPos_' = 0
            /\ written' = <<>>
       ELSE UNCHANGED <<filters_, inputBuffer_, inputBufferPos_, written>>
    /\ call' = CallRec("setActive", NoBand, 0, <<state>>, <<>>, {})
    /\ UNCHANGED <<frequencies_, gains_, qFactors_, bypass_, sampleRate_, spectrum_, tick,
                   standaloneAnVars>>

----------------------------------------------------------------------------
(* Spec: calls on the equalizer of the running program from one thread, in  *)
(* any order: on the plugin's EQProcessor, or on the standalone player's    *)
(* AudioAnalyzer                                                            *)

HistInit ==
    /\ program \in {"plugin", "standalone"}
    /\ call = NoCall
    /\ nCalls = 0

Init == EQInit /\ AAEqInit /\ PersistInit /\ RTInit /\ AnalysisInit(DefaultConfig) /\ HistInit

\* the sample blocks handed to processBlock: interleaved, the sample s on
\* even positions and -s on odd ones
Block(s, numFrames, numChannels) ==
    [k \in 1..(numFrames * numChannels) |-> IF k % 2 = 1 THEN s ELSE -s]

EQSetterCall ==
    \E band \in BandInputs :
        \/ \E gainDb \in GainInputs : setBandGain(band, gainDb)
        \/ \E freq \in FreqInputs : setBandFrequency(band, freq)
        \/ \E q \in QInputs : setBandQ(band, q)

EQGetterCall ==
    \E band \in BandInputs :
        \/ getBandGain(band)
        \/ getBandFrequency(band)
        \/ getBandQ(band)

EQControlCall ==
    \/ \E bypass \in BOOLEAN : setBypass(bypass)
    \/ \E sampleRate \in SampleRateInputs : setSampleRate(sampleRate)
    \/ reset

EQProcessCall ==
    \/ \E in \in StereoInputs : process(in[1], in[2])
    \/ \E input \in SampleInputs : processMono(input)
    \/ \E s \in SampleInputs, shape \in BlockShapes :
          processBlock(Block(s, shape[1], shape[2]), shape[1], shape[2])

EQCall ==
    /\ Counted("plugin")
    /\ EQSetterCall \/ EQGetterCall \/ EQControlCall \/ EQProcessCall
    /\ UNCHANGED <<aaEqVars, stateVars, rtVars, anVars>>

AASetterCall ==
    \E bandIndex \in BandInputs :
        \/ \E gainDb \in GainInputs : setEQBandGain(bandIndex, gainDb)
        \/ \E frequency \in FreqInputs : setEQBandFrequency(bandIndex, frequency)
        \/ \E q \in QInputs : setEQBandQ(bandIndex, q)

AAGetterCall ==
    \E bandIndex \in BandInputs :
        \/ getEQBandGain(bandIndex)
        \/ getEQBandFrequency(bandIndex)
        \/ getEQBandQ(bandIndex)

AACall ==
    /\ Counted("standalone")
    /\ AASetterCall \/ AAGetterCall \/ handleInput_KEY_R
    /\ UNCHANGED <<eqVars, stateVars, rtVars, anVars>>

Next == EQCall \/ AACall

vars == <<eqVars, aaEqVars, stateVars, rtVars, anVars, histVars>>

Spec == Init /\ [][Next]_vars

----------------------------------------------------------------------------
(* SpecState: the plugin's equalizer edited through its setters, saved by   *)
(* getState and restored by setState / setComponentState from the saved     *)
(* stream, whole or cut short                                               *)

\* the bands edited between a save and a restore, and the values given
StateBandInputs == {0, NUM_BANDS - 1}
StateGainInputs == {-10000, 1}
StateFreqInputs == {30000}
StateQInputs == {10}

\* the lengths, in words, of the streams handed to a restore: empty, cut
\* inside the version .. inside band 0, after band 0, before the bypass
\* word, and complete
StreamLengths == {0, 1, 2, 5, 7, StateWords - 1, StateWords}

StateInit ==
    /\ EQInit /\ AAEqInit /\ PersistInit /\ RTInit /\ AnalysisInit(DefaultConfig)
    /\ program = "plugin"
    /\ call = NoCall
    /\ nCalls = 0

StateEdit ==
    /\ Counted("plugin")
    /\ \E band \in StateBandInputs :
          \/ \E gainDb \in StateGainInputs : setBandGain(band, gainDb)
          \/ \E freq \in StateFreqInputs : setBandFrequency(band, freq)
          \/ \E q \in StateQInputs : setBandQ(band, q)
    /\ UNCHANGED <<aaEqVars, stateVars, rtVars, anVars>>

StateBypass ==
    /\ Counted("plugin")
    /\ \E bypass \in BOOLEAN : setBypass(bypass)
    /\ UNCHANGED <<aaEqVars, stateVars, rtVars, anVars>>

StateSave ==
    /\ Counted("plugin")
    /\ \E null \in BOOLEAN : getState(null)
    /\ UNCHANGED <<aaEqVars, rtVars, anVars>>

StateRestore ==
    /\ Counted("plugin")
    /\ \/ setState(TRUE, 0)
       \/ \E n \in StreamLengths : n <= Len(stream) /\ setState(FALSE, n)
    /\ UNCHANGED <<aaEqVars, rtVars, anVars>>

StateRestoreController ==
    /\ Counted("plugin")
    /\ \/ setComponentState(TRUE, 0)
       \/ \E n \in StreamLengths : n <= Len(stream) /\ setComponentState(FALSE, n)
    /\ UNCHANGED <<aaEqVars, rtVars, anVars>>

StateNext == StateEdit \/ StateBypass \/ StateSave \/ StateRestore \/ StateRestoreController

SpecState == StateInit /\ [][StateNext]_vars

----------------------------------------------------------------------------
(* SpecRT: the two threads of the running program, interleaved at every     *)
(* access to the data they share                                            *)

\* the band edits of the UI thread
RTBandInputs == {NUM_BANDS - 1, NUM_BANDS}
RTEdits == {<<"gain", 1>>, <<"gain", 10000>>, <<"frequency", 1000>>, <<"q", 10>>}

RTInit0 ==
    /\ EQInit /\ AAEqInit /\ PersistInit /\ RTInit /\ AnalysisInit(DefaultConfig)
    /\ program \in {"plugin", "standalone"}
    /\ call = NoCall
    /\ nCalls = 0

RTNext ==
    \/ \E ok \in BOOLEAN, length \in FileLengths : loadFile(ok, length)
    \/ play
    \/ pause
    \/ \E bandIndex \in RTBandInputs, e \in RTEdits : setEQBand_store(bandIndex, e[1], e[2])
    \/ setEQBand_flag
    \/ getSpectrum
    \/ computeSpectrum_lock
    \/ computeSpectrum_extract
    \/ computeSpectrum_window
    \/ computeSpectrum_fft
    \/ computeSpectrum_bands
    \/ audioCallback_enter
    \/ audioCallback_read
    \/ audioCallback_endOfFile
    \/ audioCallback_testFlag
    \/ updateEQFilters_loop
    \/ updateEQFilters_clear
    \/ audioCallback_filter
    \/ audioCallback_position
    \/ processAudioData_lock
    \/ processAudioData_copy
    \/ \E audio \in BOOLEAN : PluginProcessor_process(audio)
    \/ PluginProcessor_process_lock
    \/ PluginProcessor_process_window
    \/ PluginProcessor_process_fft
    \/ PluginProcessor_process_store
    \/ PluginProcessor_getSpectrum
    \/ PluginProcessor_getSpectrum_lock
    \/ PluginProcessor_getSpectrum_copy

SpecRT == RTInit0 /\ [][RTNext]_vars

----------------------------------------------------------------------------
(* SpecFFT: the functions of namespace fft called on vectors of every       *)
(* length up to MaxSignalLen                                                *)

\* the samples and the Complex values the vectors are made of
FFTSamples == {1000, -500}
FFTComplex == {<<1000, 0>>, <<0, -500>>}

RECURSIVE SeqsUpTo(_, _)
SeqsUpTo(S, n) ==
    IF n = 0 THEN {<<>>}
    ELSE LET shorter == SeqsUpTo(S, n - 1)
         IN shorter \cup {Append(s, x) : s \in {t \in shorter : Len(t) = n - 1}, x \in S}

FFTInit ==
    /\ EQInit /\ AAEqInit /\ PersistInit /\ RTInit /\ AnalysisInit(DefaultConfig)
    /\ program = "standalone"
    /\ call = NoCall
    /\ nCalls = 0

FFTUnchanged == UNCHANGED <<eqVars, aaEqVars, stateVars, rtVars, anVars, program, nCalls>>

\* a call of transformInPlace on a vector the caller owns
FFTTransformInPlace ==
    /\ \E data \in SeqsUpTo(FFTComplex, MaxSignalLen) :
          call' = CallRec("transformInPlace", NoBand, Len(data), data,
                          transformInPlace(data), {})
    /\ FFTUnchanged

\* a call of transform
FFTTransform ==
    /\ \E signal \in SeqsUpTo(FFTSamples, MaxSignalLen) :
          call' = CallRec("transform", NoBand, Len(signal), signal, transform(signal), {})
    /\ FFTUnchanged

\* a call of inverse
FFTInverse ==
    /\ \E spectrum \in SeqsUpTo(FFTComplex, MaxSignalLen) :
          call' = CallRec("inverse", NoBand, Len(spectrum), spectrum, inverse(spectrum), {})
    /\ FFTUnchanged

FFTNext == FFTTransformInPlace \/ FFTTransform \/ FFTInverse

SpecFFT == FFTInit /\ [][FFTNext]_vars

----------------------------------------------------------------------------
(* SpecAnalysis: blocks are ingested, analysed and the transport stopped,   *)
(* in any order, in the standalone player under every configuration of      *)
(* AnalyzerConfigs and in the plugin                                        *)

\* the configurations main() may hand to setConfig before initialize()
AnalyzerConfigs ==
    {DefaultConfig,
     AnalyzerConfig(8, 600, 20, 20000, 2, TRUE),
     AnalyzerConfig(8, 600, 6000, 20000, 2, FALSE),
     AnalyzerConfig(4, 700, 20, 20000, 1, FALSE),
     AnalyzerConfig(4, 700, 30000, 40000, 1, FALSE)}

\* the interleaved blocks the audio callback hands to processAudioData:
\* <<samples, frameCount, channels>>
AnalysisBlocks ==
    {<<<<1000>>, 1, 1>>,
     <<<<1000, -504, 1000, 1000, -504, -504>>, 3, 2>>,
     <<<<-504, -504, 1000, 1000, 1000>>, 5, 1>>}

\* the blocks the host hands to process: <<channel buffers, numSamples, numChannels, silent>>
PluginBlocks ==
    {<<<<<<1000>>, <<-504>>>>, 1, 2, FALSE>>,
     <<<<<<1000, 1000, -504>>>>, 3, 1, FALSE>>,
     <<<<<<0, 0>>, <<0, 0>>>>, 2, 2, TRUE>>}

AnalysisInit0 ==
    /\ EQInit /\ AAEqInit /\ PersistInit /\ RTInit /\ HistInit
    /\ \E cfg \in AnalyzerConfigs : AnalysisInit(cfg)
    /\ program = "plugin" => config = DefaultConfig

AnalysisCall ==
    \/ /\ Counted("standalone")
       /\ \E b \in AnalysisBlocks : processAudioData(b[1], b[2], b[3])
       /\ UNCHANGED <<eqVars, aaEqVars, stateVars, rtVars>>
    \/ /\ Counted("standalone")
       /\ computeSpectrum
       /\ UNCHANGED <<eqVars, aaEqVars, stateVars, rtVars>>
    \/ stop
    \/ \E ok \in BOOLEAN, length \in FileLengths : loadFile(ok, length)

PluginAnalysisCall ==
    /\ Counted("plugin")
    /\ \/ \E b \in PluginBlocks : PluginProcessor_processData(b[1], b[2], b[3], b[4])
       \/ \E state \in BOOLEAN : setActive(state)
    /\ UNCHANGED <<aaEqVars, stateVars, rtVars>>

AnalysisNext == AnalysisCall \/ PluginAnalysisCall

SpecAnalysis == AnalysisInit0 /\ [][AnalysisNext]_vars

----------------------------------------------------------------------------
(* SpecTransport: the transport calls of the standalone player, whole, on   *)
(* one thread, with blocks handed to the analyzer and spectra computed in   *)
(* between                                                                  *)

TransportInit ==
    /\ EQInit /\ AAEqInit /\ PersistInit /\ RTInit /\ AnalysisInit(DefaultConfig)
    /\ program = "standalone"
    /\ call = NoCall
    /\ nCalls = 0

TransportNext ==
    \/ \E ok \in BOOLEAN, length \in FileLengths : loadFile(ok, length)
    \/ play
    \/ pause
    \/ togglePlayPause
    \/ \E positionSeconds \in SeekInputs : seek(positionSeconds)
    \/ stop
    \/ /\ Counted("standalone")
       /\ \E b \in AnalysisBlocks : processAudioData(b[1], b[2], b[3])
       /\ UNCHANGED <<eqVars, aaEqVars, stateVars, rtVars>>
    \/ /\ Counted("standalone")
       /\ computeSpectrum
       /\ UNCHANGED <<eqVars, aaEqVars, stateVars, rtVars>>

SpecTransport == TransportInit /\ [][TransportNext]_vars

----------------------------------------------------------------------------
(* SpecConfig: the public calls of a newly constructed AudioAnalyzer in     *)
(* every order, on one thread.  processAudioData and getSpectrum are split  *)
(* at their lock_guard.  A call that indexes a vector past its end or       *)
(* divides by a zero size has undefined behaviour: the thread is at         *)
(* "undefined" from then on and is followed no further.                     *)

\* AudioAnalyzerImpl after the constructor: the default configuration and
\* empty vectors
ConstructedInit ==
    /\ config = DefaultConfig
    /\ sampleBuffer = ZeroVector(0)
    /\ bufferWritePos = 0
    /\ bandBins = ZeroVector(0)
    /\ smoothedMagnitudes = ZeroVector(0)
    /\ currentSpectrum = SpectrumData(ZeroVector(0), ZeroVector(0), 0, 0, 0)
    /\ inputBuffer_ = ZeroVector(kFFTSize)
    /\ inputBufferPos_ = 0
    /\ spectrum_ = ZeroVector(kFFTSize \div 2)
    /\ written = <<>>
    /\ tick = NoTick

ConfigInit ==
    /\ EQInit /\ AAEqInit /\ PersistInit /\ RTInit /\ ConstructedInit
    /\ program = "standalone"
    /\ call = NoCall
    /\ nCalls = 0

\* the vectors that updateBands writes through hold an element per band
BandVectorsSized ==
    /\ Size(smoothedMagnitudes) = config.numBands
    /\ Size(currentSpectrum.magnitudes) = config.numBands
    /\ Size(currentSpectrum.frequencies) = config.numBands

\* a call ends in undefined behaviour
Undefined(op) ==
    /\ call' = CallRec(op, NoBand, 0, <<>>, <<>>, {})
    /\ ui' = "undefined"
    /\ UNCHANGED <<eqVars, aaEqVars, stateVars, anVars, aud, bufferMutex, spectrumMutex_,
                   fileLoaded, playing, deviceStarted, trVars, instVars, nCallbacks, cb,
                   editsSinceUpdate, settled>>

ConfigInitialize ==
    /\ Counted("standalone")
    /\ ui = "idle"
    /\ initialize
    /\ UNCHANGED <<eqVars, aaEqVars, stateVars, rtVars>>

ConfigSetConfig ==
    /\ Counted("standalone")
    /\ ui = "idle"
    /\ \E cfg \in AnalyzerConfigs : setConfig(cfg)
    /\ UNCHANGED <<eqVars, aaEqVars, stateVars, rtVars>>

\* loadFile: on success updateBands() writes currentSpectrum.frequencies[i]
\* for every i < numBands
ConfigLoadFile ==
    \E ok \in BOOLEAN, length \in FileLengths :
        IF ok /\ Size(currentSpectrum.frequencies) < config.numBands
        THEN /\ Counted("standalone")
             /\ ui = "idle"
             /\ Undefined("loadFile")
        ELSE loadFile(ok, length)

\* processAudioData: std::lock_guard lock(bufferMutex)
ConfigProcessAudioData_lock ==
    /\ Counted("standalone")
    /\ ui = "idle"
    /\ bufferMutex = "free"
    /\ bufferMutex' = "ui"
    /\ ui' = "pad_copy"
    /\ UNCHANGED <<eqVars, aaEqVars, stateVars, anVars, call, aud, spectrumMutex_,
                   fileLoaded, playing, deviceStarted, trVars, instVars, nCallbacks, cb,
                   editsSinceUpdate, settled>>

\* processAudioData: the frame loop, which writes sampleBuffer[bufferWritePos],
\* and the end of the lock_guard's scope
ConfigProcessAudioData_copy ==
    /\ program = "standalone"
    /\ ui = "pad_copy"
    /\ \E b \in AnalysisBlocks :
          IF bufferWritePos < Size(sampleBuffer)
          THEN /\ processAudioData(b[1], b[2], b[3])
               /\ bufferMutex' = "free"
               /\ ui' = "idle"
               /\ UNCHANGED <<eqVars, aaEqVars, stateVars, aud, spectrumMutex_,
                              fileLoaded, playing, deviceStarted, trVars, instVars, nCallbacks, cb,
                              editsSinceUpdate, settled>>
          ELSE Undefined("processAudioData")
    /\ UNCHANGED <<program, nCalls>>

\* computeSpectrum under the lock: the window is taken modulo the size of
\* the ring, and the band loop indexes bandBins, smoothedMagnitudes and
\* currentSpectrum.magnitudes up to numBands; then the lock_guard's scope ends
ConfigComputeSpectrum ==
    /\ program = "standalone"
    /\ ui = "cs_extract"
    /\ IF /\ Size(sampleBuffer) > 0
          /\ Size(bandBins) >= config.numBands
          /\ Size(smoothedMagnitudes) >= config.numBands
          /\ Size(currentSpectrum.magnitudes) >= config.numBands
       THEN /\ computeSpectrum
            /\ bufferMutex' = "free"
            /\ ui' = "idle"
            /\ UNCHANGED <<eqVars, aaEqVars, stateVars, aud, spectrumMutex_,
                           fileLoaded, playing, deviceStarted, trVars, instVars, nCallbacks, cb,
                           editsSinceUpdate, settled>>
       ELSE Undefined("getSpectrum")
    /\ UNCHANGED <<program, nCalls>>

ConfigNext ==
    \/ ConfigInitialize
    \/ ConfigSetConfig
    \/ ConfigLoadFile
    \/ stop
    \/ ConfigProcessAudioData_lock
    \/ ConfigProcessAudioData_copy
    \/ getSpectrum
    \/ computeSpectrum_lock
    \/ ConfigComputeSpectrum

SpecConfig == ConfigInit /\ [][ConfigNext]_vars

----------------------------------------------------------------------------
(* SpecInstances: two instances of the plugin in one process.  Each         *)
(* PluginProcessor has its own audio thread, inputBuffer_, spectrum_ and    *)
(* spectrumMutex_; the scratch buffer of process is a static local, so one  *)
(* object for all instances; SharedSpectrumData::instance() is one object   *)
(* for all instances.  The editors render on the one UI thread.  The        *)
(* equalizer of every instance keeps its constructed settings.              *)

\* the vectors that each element takes from a or from b: what a reader of
\* a buffer gets that another thread overwrites from a with b, or from b
\* with a, while it is read
Mixtures(a, b) ==
    {[k \in DOMAIN a |-> IF k \in S THEN a[k] ELSE b[k]] : S \in SUBSET (DOMAIN a)}

\* what instance i's loop "copy with windowing" stores in tempBuffer
Windowed(buffer, pos) ==
    [k \in 1..kFFTSize |->
        (PluginWindow(buffer, pos)[k] * HannMultiplier(k - 1, kFFTSize)) \div SCALE]

\* what the steps of an instance or an editor leave alone
InstancesOnly ==
    UNCHANGED <<eqVars, aaEqVars, stateVars, anVars, call, program, aud, ui, bufferMutex,
                spectrumMutex_, fileLoaded, playing, deviceStarted, trVars, cb,
                editsSinceUpdate, settled, controller, views, threads>>

\* a step of the audio thread of instance i inside process
ProcessorStep(i, from) ==
    /\ program = "plugin"
    /\ procs[i].pc = from
    /\ UNCHANGED <<nCalls, nCallbacks, editors>>
    /\ InstancesOnly

\* the sample the host sends to instance i: each instance is on a track
\* of its own
InstanceInput(i) == IF i = 1 THEN 1000 ELSE -500

\* PluginProcessor::process of instance i on a mono block of two samples s:
\* the sample loop
Instance_process(i, s) ==
    /\ program = "plugin"
    /\ procs[i].pc = "idle"
    /\ nCallbacks < MaxCallbacks
    /\ nCallbacks' = nCallbacks + 1
    /\ \E st \in {PluginFrames([filters |-> procs[i].filters, bypass |-> FALSE,
                                buffer |-> procs[i].inputBuffer_,
                                pos |-> procs[i].inputBufferPos_, written |-> <<>>],
                               <<(<<s, s>>)>>, 0, 2, 1)} :
          procs' = [procs EXCEPT ![i].filters = st.filters,
                                 ![i].inputBuffer_ = st.buffer,
                                 ![i].inputBufferPos_ = st.pos,
                                 ![i].pc = "pp_lock"]
    /\ UNCHANGED <<nCalls, tempBuffer, shared, editors>>
    /\ InstancesOnly

\* process: std::lock_guard lock(spectrumMutex_), the mutex of instance i
Instance_process_lock(i) ==
    /\ ProcessorStep(i, "pp_lock")
    /\ procs[i].spectrumMutex_ = "free"
    /\ procs' = [procs EXCEPT ![i].spectrumMutex_ = "audio", ![i].pc = "pp_window"]
    /\ UNCHANGED <<tempBuffer, shared>>

\* process: the loop that writes the windowed samples to the static
\* tempBuffer
Instance_process_window(i) ==
    /\ ProcessorStep(i, "pp_window")
    /\ tempBuffer' = Windowed(procs[i].inputBuffer_, procs[i].inputBufferPos_)
    /\ procs' = [procs EXCEPT ![i].pc = "pp_fft"]
    /\ UNCHANGED shared

\* process: fft::transform(tempBuffer), fft::magnitude and the loop that
\* fills spectrum_.  tempBuffer holds what this instance wrote unless the
\* audio thread of another instance wrote it since: an element is then this
\* instance's value or the other's, depending on when the other thread's
\* loop passed it
Instance_process_fft(i) ==
    /\ ProcessorStep(i, "pp_fft")
    /\ \E w \in Mixtures(Windowed(procs[i].inputBuffer_, procs[i].inputBufferPos_),
                         tempBuffer) :
       \E magnitudes \in {Normalized(magnitude(transform(w).data), kFFTSize)} :
          procs' = [procs EXCEPT
                       ![i].spectrum_ = [k \in 0..(kFFTSize \div 2 - 1) |->
                                            ToFloat(magnitudes[k + 1])],
                       ![i].foreign = w # Windowed(procs[i].inputBuffer_,
                                                   procs[i].inputBufferPos_),
                       ![i].pc = "ss_lock"]
    /\ UNCHANGED <<tempBuffer, shared>>

\* setSpectrum without its lock_guard
setSpectrum_unlocked(i) ==
    /\ ProcessorStep(i, "ss_lock")
    /\ procs' = [procs EXCEPT ![i].pc = "ss_assign", ![i].next = 0]
    /\ UNCHANGED <<tempBuffer, shared>>

\* SharedSpectrumData::setSpectrum called by instance i:
\* std::lock_guard lock(mutex_).  The holder of mutex_ is 0 (free), i (the
\* audio thread of instance i) or -i (the render of editor i)
setSpectrum_lock(i) ==
    /\ ProcessorStep(i, "ss_lock")
    /\ shared.mutex_ = 0
    /\ shared' = [shared EXCEPT !.mutex_ = i]
    /\ procs' = [procs EXCEPT ![i].pc = "ss_assign", ![i].next = 0]
    /\ UNCHANGED tempBuffer

\* setSpectrum: spectrum_ = spectrum.  A vector of another size is replaced
\* as a whole; one of the same size is overwritten element by element
setSpectrum_assign(i) ==
    /\ ProcessorStep(i, "ss_assign")
    /\ IF Size(shared.spectrum_) # Size(procs[i].spectrum_)
       THEN /\ shared' = [shared EXCEPT !.spectrum_ = procs[i].spectrum_, !.producer = {i}]
            /\ procs' = [procs EXCEPT ![i].pc = "ss_flag"]
       ELSE /\ shared' = [shared EXCEPT
                             !.spectrum_[procs[i].next] = procs[i].spectrum_[procs[i].next],
                             !.producer = IF procs[i].next = 0 THEN @ \cup {i} ELSE {i}]
            /\ procs' = [procs EXCEPT
                            ![i].next = @ + 1,
                            ![i].pc = IF procs[i].next + 1 < Size(procs[i].spectrum_)
                                      THEN "ss_assign" ELSE "ss_flag"]
    /\ UNCHANGED tempBuffer

\* setSpectrum: hasNewData_.store(true); setSpectrum returns and unlocks
\* mutex_, the block of process ends and unlocks spectrumMutex_, process
\* returns
setSpectrum_flag(i) ==
    /\ ProcessorStep(i, "ss_flag")
    /\ shared' = [shared EXCEPT !.hasNewData_ = TRUE,
                                !.mutex_ = IF @ = i THEN 0 ELSE @,
                                !.lastSet = procs[i].spectrum_,
                                !.fresh = TRUE,
                                !.replaced = shared.fresh,
                                !.sets = IF @ < MaxCallbacks THEN @ + 1 ELSE @]
    /\ procs' = [procs EXCEPT ![i].spectrumMutex_ = "free", ![i].pc = "idle"]
    /\ UNCHANGED tempBuffer

\* a step of the UI thread inside the render of editor i
EditorStep(i, from) ==
    /\ program = "plugin"
    /\ editors[i].pc = from
    /\ UNCHANGED <<nCalls, nCallbacks, procs, tempBuffer>>
    /\ InstancesOnly

\* PluginEditor::render of editor i is called: newSpectrum is empty
PluginEditor_render(i) ==
    /\ Counted("plugin")
    /\ \A j \in Instances : editors[j].pc = "idle"
    /\ editors' = [editors EXCEPT ![i].pc = "gs_lock", ![i].newSpectrum = <<>>]
    /\ UNCHANGED <<nCallbacks, procs, tempBuffer, shared>>
    /\ InstancesOnly

\* SharedSpectrumData::getSpectrum: std::lock_guard lock(mutex_)
SharedSpectrumData_getSpectrum_lock(i) ==
    /\ EditorStep(i, "gs_lock")
    /\ shared.mutex_ = 0
    /\ shared' = [shared EXCEPT !.mutex_ = -i]
    /\ editors' = [editors EXCEPT ![i].pc = "gs_copy"]

\* getSpectrum: false if spectrum_ is empty; else outSpectrum = spectrum_,
\* hasNewData_.store(false) and true; mutex_ is unlocked.  render: on true,
\* spectrum_ = std::move(newSpectrum)
SharedSpectrumData_getSpectrum_copy(i) ==
    /\ EditorStep(i, "gs_copy")
    /\ IF Size(shared.spectrum_) = 0
       THEN /\ shared' = [shared EXCEPT !.mutex_ = 0]
            /\ editors' = [editors EXCEPT ![i].pc = "idle", ![i].returned = <<FALSE>>]
       ELSE /\ shared' = [shared EXCEPT !.mutex_ = 0, !.hasNewData_ = FALSE, !.fresh = FALSE]
            /\ editors' = [editors EXCEPT ![i].pc = "idle", ![i].returned = <<TRUE>>,
                                          ![i].newSpectrum = shared.spectrum_,
                                          ![i].spectrum_ = shared.spectrum_,
                                          ![i].producer = shared.producer]

InstancesNext ==
    \/ \E i \in Instances : Instance_process(i, InstanceInput(i))
    \/ \E i \in Instances : Instance_process_lock(i)
    \/ \E i \in Instances : Instance_process_window(i)
    \/ \E i \in Instances : Instance_process_fft(i)
    \/ \E i \in Instances : setSpectrum_lock(i)
    \/ \E i \in Instances : setSpectrum_assign(i)
    \/ \E i \in Instances : setSpectrum_flag(i)
    \/ \E i \in Instances : PluginEditor_render(i)
    \/ \E i \in Instances : SharedSpectrumData_getSpectrum_lock(i)
    \/ \E i \in Instances : SharedSpectrumData_getSpectrum_copy(i)

\* the plugin runs, no instance has processed a block
InstancesSpecInit == Init /\ program = "plugin"

SpecInstances == InstancesSpecInit /\ [][InstancesNext]_vars

----------------------------------------------------------------------------
(* SpecEditor: one PluginController called by two threads.  createView      *)
(* makes a PluginEditor and stores it in editor_; the release of an         *)
(* editor's last reference runs ~PluginEditor, which calls removeEditor     *)
(* before anything of the editor is torn down; setParamNormalized (alone    *)
(* or in the loop of setComponentState) calls onParameterChange on          *)
(* editor_ under editorMutex_; terminate clears editor_.  A view is "none"  *)
(* (not created), "alive", "released" (its destructor has been entered and  *)
(* has not passed removeEditor) or "destroyed".  The parameter values that  *)
(* the base class stores are the subject of SpecState.                      *)

\* what the steps of the controller's callers leave alone
ControllerOnly ==
    UNCHANGED <<eqVars, aaEqVars, stateVars, anVars, call, program, aud, ui, bufferMutex,
                spectrumMutex_, fileLoaded, playing, deviceStarted, trVars, cb,
                editsSinceUpdate, settled, nCallbacks, procs, tempBuffer, shared, editors>>

\* thread t begins a call on the controller or on an editor
ControllerCall(t) ==
    /\ Counted("plugin")
    /\ threads[t].pc = "idle"
    /\ ControllerOnly

\* a step of thread t inside a call
ControllerStep(t, from) ==
    /\ program = "plugin"
    /\ threads[t].pc = from
    /\ UNCHANGED nCalls
    /\ ControllerOnly

\* std::lock_guard lock(editorMutex_) by thread t at from
LockEditorMutex(t, from, to) ==
    /\ ControllerStep(t, from)
    /\ controller.editorMutex_ = "free"
    /\ controller' = [controller EXCEPT !.editorMutex_ = t]
    /\ threads' = [threads EXCEPT ![t].pc = to]
    /\ UNCHANGED views

\* PluginController::createView(kEditor): new PluginEditor(this), then
\* setEditor(editor) is called
createView(t, e) ==
    /\ ControllerCall(t)
    /\ views[e] = "none"
    /\ views' = [views EXCEPT ![e] = "alive"]
    /\ threads' = [threads EXCEPT ![t].pc = "se_lock", ![t].editor = e]
    /\ UNCHANGED controller

\* setEditor: the lock_guard
setEditor_lock(t) == LockEditorMutex(t, "se_lock", "se_store")

\* setEditor: editor_ = editor; createView returns the editor
setEditor_store(t) ==
    /\ ControllerStep(t, "se_store")
    /\ controller' = [editor_ |-> threads[t].editor, editorMutex_ |-> "free"]
    /\ threads' = [threads EXCEPT ![t].pc = "idle", ![t].editor = 0]
    /\ UNCHANGED views

\* PluginEditor::release of the last reference of editor e, which
\* createView has returned: delete this enters ~PluginEditor, which calls
\* controller_->removeEditor(this)
PluginEditor_release(t, e) ==
    /\ ControllerCall(t)
    /\ views[e] = "alive"
    /\ \A u \in Threads : threads[u].editor # e
    /\ views' = [views EXCEPT ![e] = "released"]
    /\ threads' = [threads EXCEPT ![t].pc = "re_lock", ![t].editor = e]
    /\ UNCHANGED controller

\* removeEditor that leaves editor_ as it is
removeEditor_keep(t) ==
    /\ ControllerStep(t, "re_clear")
    /\ controller' = [controller EXCEPT !.editorMutex_ = "free"]
    /\ threads' = [threads EXCEPT ![t].pc = "re_destroy"]
    /\ UNCHANGED views

\* removeEditor: the lock_guard
removeEditor_lock(t) == LockEditorMutex(t, "re_lock", "re_clear")

\* removeEditor: if (editor_ == editor) editor_ = nullptr
removeEditor_clear(t) ==
    /\ ControllerStep(t, "re_clear")
    /\ controller' = [editor_ |-> IF controller.editor_ = threads[t].editor
                                  THEN 0 ELSE controller.editor_,
                      editorMutex_ |-> "free"]
    /\ threads' = [threads EXCEPT ![t].pc = "re_destroy"]
    /\ UNCHANGED views

\* ~PluginEditor after removeEditor: destroyWindow, the members go, the
\* memory is freed
PluginEditor_destroy(t) ==
    /\ ControllerStep(t, "re_destroy")
    /\ views' = [views EXCEPT ![threads[t].editor] = "destroyed"]
    /\ threads' = [threads EXCEPT ![t].pc = "idle", ![t].editor = 0]
    /\ UNCHANGED controller

\* PluginController::setParamNormalized is called: the base class call
PluginController_setParamNormalized(t) ==
    /\ ControllerCall(t)
    /\ threads' = [threads EXCEPT ![t].pc = "sp_lock", ![t].left = 0]
    /\ UNCHANGED <<controller, views>>

\* PluginController::setComponentState on a stream that holds the values of
\* bands bands (all of them, and then the bypass word, or fewer): three
\* setParamNormalized calls a band and one for the bypass, the first of
\* which begins
PluginController_setComponentState(t, bands) ==
    /\ ControllerCall(t)
    /\ threads' = [threads EXCEPT
                      ![t].pc = "sp_lock",
                      ![t].left = IF bands = NUM_BANDS THEN 3 * NUM_BANDS
                                  ELSE 3 * bands - 1]
    /\ UNCHANGED <<controller, views>>

\* setParamNormalized: the lock_guard
setParamNormalized_lock(t) == LockEditorMutex(t, "sp_lock", "sp_notify")

\* setParamNormalized: if (editor_) editor_->onParameterChange(tag, value);
\* the call returns, and in setComponentState the next one begins.
\* target: the state of the editor the call was made on
setParamNormalized_notify(t) ==
    /\ ControllerStep(t, "sp_notify")
    /\ controller' = [controller EXCEPT !.editorMutex_ = "free"]
    /\ threads' = [threads EXCEPT
                      ![t].target = IF controller.editor_ # 0
                                    THEN views[controller.editor_] ELSE @,
                      ![t].notified = IF controller.editor_ # 0
                                      THEN controller.editor_ ELSE @,
                      ![t].left = IF @ > 0 THEN @ - 1 ELSE 0,
                      ![t].pc = IF threads[t].left > 0 THEN "sp_lock" ELSE "idle"]
    /\ UNCHANGED views

\* PluginController::terminate is called
PluginController_terminate(t) ==
    /\ ControllerCall(t)
    /\ threads' = [threads EXCEPT ![t].pc = "te_lock"]
    /\ UNCHANGED <<controller, views>>

\* terminate: the lock_guard
terminate_lock(t) == LockEditorMutex(t, "te_lock", "te_clear")

\* terminate: editor_ = nullptr; EditController::terminate()
terminate_clear(t) ==
    /\ ControllerStep(t, "te_clear")
    /\ controller' = [editor_ |-> 0, editorMutex_ |-> "free"]
    /\ threads' = [threads EXCEPT ![t].pc = "idle"]
    /\ UNCHANGED views

\* a stream cut after its first band, and a whole one
StateBandCounts == {1, NUM_BANDS}

EditorNext ==
    \/ \E t \in Threads, e \in EditorIds : createView(t, e)
    \/ \E t \in Threads : setEditor_lock(t)
    \/ \E t \in Threads : setEditor_store(t)
    \/ \E t \in Threads, e \in EditorIds : PluginEditor_release(t, e)
    \/ \E t \in Threads : removeEditor_lock(t)
    \/ \E t \in Threads : removeEditor_clear(t)
    \/ \E t \in Threads : PluginEditor_destroy(t)
    \/ \E t \in Threads : PluginController_setParamNormalized(t)
    \/ \E t \in Threads, bands \in StateBandCounts : PluginController_setComponentState(t, bands)
    \/ \E t \in Threads : setParamNormalized_lock(t)
    \/ \E t \in Threads : setParamNormalized_notify(t)
    \/ \E t \in Threads : PluginController_terminate(t)
    \/ \E t \in Threads : terminate_lock(t)
    \/ \E t \in Threads : terminate_clear(t)

SpecEditor == InstancesSpecInit /\ [][EditorNext]_vars

----------------------------------------------------------------------------
(* Claims *)

SetterOps == {"setBandGain", "setBandFrequency", "setBandQ",
              "setEQBandGain", "setEQBandFrequency", "setEQBandQ"}
GetterOps == {"getBandGain", "getBandFrequency", "getBandQ",
              "getEQBandGain", "getEQBandFrequency", "getEQBandQ"}
ProcessOps == {"process", "processMono", "processBlock"}

\* v clamped to [lo, hi]
Clamped(v, lo, hi) == IF v < lo THEN lo ELSE IF v > hi THEN hi ELSE v

\* the value the band named by the last setter call now holds
StoredByCall ==
    CASE call.op = "setBandGain" -> gains_[call.band]
      [] call.op = "setBandFrequency" -> frequencies_[call.band]
      [] call.op = "setBandQ" -> qFactors_[call.band]
      [] call.op = "setEQBandGain" -> eqConfig.bands[call.band].gain
      [] call.op = "setEQBandFrequency" -> eqConfig.bands[call.band].frequency
      [] call.op = "setEQBandQ" -> eqConfig.bands[call.band].q

\* some filter of the EQProcessor holds a non-zero delay value
FilterMemoryNonZero ==
    \E i \in Bands, c \in Channels :
        filters_[i].x1[c] # 0 \/ filters_[i].y1[c] # 0

\* C1: after any sequence of band setter calls on the EQProcessor or on the
\* AudioAnalyzer, every band's gain is in [-12, 12] dB, its frequency in
\* [20, 20000] Hz and its q in [0.1, 10]; a setter called with a valid index
\* and a number stores that number clamped to the nearest bound.
C1_BandValuesClamped ==
    /\ \A i \in Bands :
         /\ gains_[i] \in -1200..1200
         /\ frequencies_[i] \in 20..20000
         /\ qFactors_[i] \in 100..10000
         /\ eqConfig.bands[i].gain \in -1200..1200
         /\ eqConfig.bands[i].frequency \in 20..20000
         /\ eqConfig.bands[i].q \in 100..10000
    /\ (call.op \in SetterOps /\ call.band \in Bands /\ call.arg # NaN) =>
         StoredByCall =
           CASE call.op \in {"setBandGain", "setEQBandGain"} -> Clamped(call.arg, -1200, 1200)
             [] call.op \in {"setBandFrequency", "setEQBandFrequency"} -> Clamped(call.arg, 20, 20000)
             [] call.op \in {"setBandQ", "setEQBandQ"} -> Clamped(call.arg, 100, 10000)

\* a gain below -12 dB was passed to setBandGain and -12 dB is stored
C1_Witness ==
    /\ call.op = "setBandGain" /\ call.band \in Bands /\ call.arg < -1200
    /\ gains_[call.band] = -1200

\* C2: a band setter called with an index outside 0..4 changes nothing (band
\* values, coefficients, delay state, bypass, the needs-recompute flag), and
\* a getter changes nothing and returns its fixed fallback for such an index.
C2_BadIndexIsNoOp ==
    [][ /\ (call'.op \in SetterOps /\ call'.band \notin 0..4) =>
              UNCHANGED <<eqVars, aaEqVars>>
        /\ call'.op \in GetterOps =>
              /\ UNCHANGED <<eqVars, aaEqVars>>
              /\ call'.band \notin 0..4 =>
                   call'.out =
                     CASE call'.op \in {"getBandGain", "getEQBandGain"} -> <<0>>
                       [] call'.op \in {"getBandFrequency", "getEQBandFrequency"} -> <<1000>>
                       [] call'.op = "getBandQ" -> <<707>>
                       [] call'.op = "getEQBandQ" -> <<1000>>
      ]_vars

\* setBandQ was called with index 5 on an equalizer whose filters hold memory
C2_Witness ==
    /\ call.op = "setBandQ" /\ call.band = 5
    /\ FilterMemoryNonZero
    /\ \E i \in Bands : gains_[i] # 0

\* C3: while bypassed, process, processMono and processBlock return the
\* samples unchanged and leave every filter's delay state unchanged; setBypass
\* changes the bypass flag and nothing else.
C3_BypassKeepsFilterMemory ==
    [][ /\ (call'.op \in ProcessOps /\ bypass_) =>
              /\ call'.out = call'.in
              /\ filters_' = filters_
        /\ call'.op = "setBypass" =>
              UNCHANGED <<frequencies_, gains_, qFactors_, filters_, sampleRate_>>
      ]_vars

\* a sample was processed while bypassed, with an active band and filter
\* memory left from before the bypass
C3_Witness ==
    /\ call.op \in ProcessOps /\ bypass_
    /\ call.in # <<>> /\ call.out = call.in
    /\ \E i \in Bands : stdabs(gains_[i]) > 1
    /\ FilterMemoryNonZero

\* C4: when not bypassed, band i's filter runs iff |gain_i| > 0.01 dB: a band
\* at or below the threshold keeps its filter untouched, an active band's
\* delay line is shifted, and with all bands flat the output is the input.
C4_ActiveBandsOnly ==
    [][ (call'.op \in ProcessOps /\ ~bypass_) =>
          LET active == {i \in Bands : gains_[i] > 1 \/ gains_[i] < -1}
              ran == IF call'.in = <<>> THEN {} ELSE active
          IN /\ call'.applied = ran
             /\ \A i \in Bands \ ran : filters_'[i] = filters_[i]
             /\ ran = {} => call'.out = call'.in
             /\ call'.op \in {"process", "processMono"} =>
                  \A i \in ran : /\ filters_'[i].x2[0] = filters_[i].x1[0]
                                 /\ filters_'[i].y2[0] = filters_[i].y1[0]
                                 /\ \A j \in Bands \ ran : j < i => filters_'[i].x1[0] = call'.in[1]
      ]_vars

\* a sample went through the filter of the one band above the threshold and
\* came out changed, while a band at exactly 0.01 dB would have been skipped
C4_Witness ==
    /\ call.op = "processMono" /\ ~bypass_
    /\ call.applied = {NUM_BANDS - 1}
    /\ call.out # call.in

\* C9: when PluginProcessor::setState or PluginController::setComponentState
\* returns failure (no stream, or a stream that ends before the last field),
\* the gain, frequency and Q of every band, the bypass flag and the
\* controller's parameters are what they were before the call.
C9_FailedRestoreLeavesState ==
    [][(call'.op \in {"setState", "setComponentState"} /\ call'.out = <<"kResultFalse">>)
       => /\ EqValues(EqObj)' = EqValues(EqObj)
          /\ params' = params]_vars

\* C10: setState of the complete stream written by getState, into a
\* processor in whatever state, succeeds and leaves the gain, frequency and
\* Q of every band and the bypass flag equal to the ones saved.
C10_StateRoundTrip ==
    [][(call'.op = "setState" /\ call'.arg = StateWords)
       => /\ call'.out = <<"kResultOk">>
          /\ saved.valid
          /\ EqValues(EqObj)' = saved.values]_vars

\* a complete stream holding a negative gain was restored into a processor
\* whose band values had been edited after the save
C10_Witness ==
    /\ call.op = "setState"
    /\ call.arg = StateWords
    /\ call.in # saved.values
    /\ EqValues(EqObj) = saved.values
    /\ \E i \in Bands : saved.values.gains[i] < 0

\* C5: once the edits have stopped and an audio callback that began after
\* them has completed while playing, the coefficients of every filter are
\* the ones computed from the band's current frequency, gain and Q and the
\* sample rate: no edit is lost.
C5_NoEditLost ==
    settled => \A i \in Bands :
                  Coefficients(eqFilters[i]) =
                      Coefficients(UpdateEQFiltersLoop(eqFilters, eqConfig)[i])

\* C6: a callback recomputes the coefficients at most once, before its
\* sample loop has run, and only if a band was edited since the last
\* recompute.
C6_OneRecomputePerCallback ==
    [][cb'.recomputes = cb.recomputes + 1
       => /\ cb.recomputes = 0
          /\ ~cb.filtered /\ ~cb'.filtered
          /\ editsSinceUpdate > 0]_vars

\* a callback has completed whose single recompute served two edits
C6_Witness ==
    /\ aud = "idle"
    /\ cb.filtered
    /\ cb.recomputes = 1
    /\ cb.served >= 2

\* C7: a mutex shared by the audio path and the analysis path is held only
\* by a thread that copies or assigns samples or a spectrum, never by one
\* that applies the window, runs the FFT or reduces the bins to bands.
C7_MutexHeldOnlyForCopy ==
    /\ bufferMutex = "ui" => ui = "cs_extract"
    /\ bufferMutex = "audio" => aud = "cb_copy"
    /\ spectrumMutex_ = "audio" => aud = "pp_store"
    /\ spectrumMutex_ = "ui" => ui = "gs_copy"

\* C8: the thread that runs the audio callback never executes the window,
\* the FFT or the magnitude / band step, in the standalone player and in
\* the plugin alike.
C8_NoAnalysisOnAudioThread ==
    aud \notin {"cs_window", "cs_fft", "cs_bands", "pp_window", "pp_fft"}

----------------------------------------------------------------------------
(* C11: the layout of the persisted state *)

\* the words of one float64 field, and of the three fields of band b
FieldWords(d) == <<d % HALF, d \div HALF>>
BandWords(v, b) == FieldWords(v.gains[b]) \o FieldWords(v.frequencies[b])
                   \o FieldWords(v.qFactors[b])

\* the 17 fields in their order: version 1, the bands 0..4, bypass 0 / 1
StateLayout(v) ==
    <<1>> \o BandWords(v, 0) \o BandWords(v, 1) \o BandWords(v, 2) \o BandWords(v, 3)
          \o BandWords(v, 4) \o <<IF v.bypass THEN 1 ELSE 0>>

\* the normalized parameters that the saved values stand for
ParamsOf(v) ==
    [tag \in ParamIDs |->
        IF tag = kBypass THEN (IF v.bypass THEN SCALE ELSE 0)
        ELSE LET b == tag \div 3
             IN CASE tag % 3 = 0 -> ((v.gains[b] - MIN_GAIN) * SCALE) \div (MAX_GAIN - MIN_GAIN)
                  [] tag % 3 = 1 -> ((Log10Freq(v.frequencies[b]) - Log10Freq(MIN_FREQ)) * SCALE)
                                    \div (Log10Freq(MAX_FREQ) - Log10Freq(MIN_FREQ))
                  [] tag % 3 = 2 -> ((Log10Q(v.qFactors[b]) - Log10Q(MIN_Q)) * SCALE)
                                    \div (Log10Q(MAX_Q) - Log10Q(MIN_Q))]

\* C11: the stream getState wrote holds exactly the 17 fields version = 1,
\* then gain, frequency, Q of band 0, 1, 2, 3, 4, then bypass as 0 / 1; and
\* setState and setComponentState of that stream take the fields in the same
\* order: each band's gain, frequency and Q and the bypass flag (each
\* parameter) end up as the field written for it.
C11_StateLayout ==
    /\ [](saved.valid => stream = StateLayout(saved.values))
    /\ [][(call'.op = "setState" /\ call'.arg = StateWords)
          => \A b \in Bands : /\ gains_'[b] = saved.values.gains[b]
                              /\ frequencies_'[b] = saved.values.frequencies[b]
                              /\ qFactors_'[b] = saved.values.qFactors[b]
                              /\ bypass_' = saved.values.bypass]_vars
    /\ [][(call'.op = "setComponentState" /\ call'.arg = StateWords)
          => params' = ParamsOf(saved.values)]_vars

\* the controller took a complete stream in which gain, frequency and Q of
\* band 0 and the bypass flag are all off their defaults
C11_Witness ==
    /\ call.op = "setComponentState"
    /\ call.arg = StateWords
    /\ saved.values.gains[0] < 0
    /\ saved.values.frequencies[0] # DEFAULT_FREQUENCIES[0]
    /\ params = ParamsOf(saved.values)
    /\ params # NewParameters

----------------------------------------------------------------------------
(* C18: the lengths the FFT accepts *)

\* 1, 2, 4, 8, ..
PowersOfTwo == {2 ^ k : k \in 0..(MaxSignalLen + 1)}

----------------------------------------------------------------------------
(* C12 .. C16: the rolling buffer, the band table and the spectrum frame *)

\* the largest element of a non-empty set of numbers
SetMax(S) == CHOOSE x \in S : \A y \in S : y <= x
SetMin(S) == CHOOSE x \in S : \A y \in S : x <= y

\* the last n mono samples written, oldest first, after n initial zeros
LastWritten(w, n) == SubSeq([k \in 1..n |-> 0] \o w, Len(w) + 1, Len(w) + n)

\* C12: the window an analysis extracts is the last fftSize mono samples
\* written to the rolling buffer, oldest first, with zeros where nothing was
\* written yet; every processed frame writes one mono sample and moves the
\* cursor by one; extracting the window changes neither the buffer nor the
\* cursor.  In the player the window is extracted by getSpectrum, in the
\* plugin at the end of process.
C12_WindowIsLastSamples ==
    [][/\ call'.op = "getSpectrum"
          => /\ tick'.window = LastWritten(written, config.fftSize)
             /\ sampleBuffer' = sampleBuffer
             /\ bufferWritePos' = bufferWritePos
             /\ written' = written
       /\ call'.op = "processAudioData"
          => /\ Len(written') = Len(written) + call'.arg
             /\ bufferWritePos' = (bufferWritePos + call'.arg) % Size(sampleBuffer)
       /\ (call'.op = "process" /\ ~call'.in[2])
          => /\ Len(written') = Len(written) + call'.arg
             /\ inputBufferPos_' = (inputBufferPos_ + call'.arg) % kFFTSize
             /\ tick'.window = LastWritten(written', kFFTSize)]_vars

\* an analysis of the player after the ring wrapped around, on a window
\* that holds different samples
C12_Witness ==
    /\ call.op = "getSpectrum"
    /\ Len(written) > Size(sampleBuffer)
    /\ tick.window = LastWritten(written, config.fftSize)
    /\ \E j, k \in 1..Len(tick.window) : tick.window[j] # tick.window[k]

\* C13: after every rebuild of the band table, under log and linear scale
\* and every configuration, every band i in [0, numBands) has
\* binHigh(i) >= binLow(i) + 1.
C13_NoEmptyBand ==
    /\ DOMAIN bandBins = 0..(config.numBands - 1)
    /\ \A i \in 0..(config.numBands - 1) : bandBins[i][2] >= bandBins[i][1] + 1

\* loadFile rebuilt the table and a band's two edges fall into the same bin
C13_Witness ==
    /\ call.op = "loadFile"
    /\ call.out = <<TRUE>>
    /\ \E i \in 0..(config.numBands - 1) :
          /\ BinOf(BandEdges(config, ImplSampleRate, i)[1], ImplSampleRate, config.fftSize)
             = BinOf(BandEdges(config, ImplSampleRate, i)[2], ImplSampleRate, config.fftSize)
          /\ bandBins[i][2] = bandBins[i][1] + 1

\* C14: the bins an analysis reads for two different bands do not overlap,
\* and the range of each band begins right after the range of the band
\* before it.
C14_BandsPartitionBins ==
    \A b1, b2 \in DOMAIN tick.binsRead :
        b1 < b2 =>
            /\ tick.binsRead[b1] \cap tick.binsRead[b2] = {}
            /\ (b2 = b1 + 1 /\ tick.binsRead[b1] # {} /\ tick.binsRead[b2] # {})
               => SetMin(tick.binsRead[b2]) = SetMax(tick.binsRead[b1]) + 1

\* C15: the peak frequency of a frame is peakBin * (sampleRate / fftSize)
\* for a bin that holds the largest magnitude among all the bins
\* 0 .. fftSize / 2 - 1, whether or not a band covers it.
C15_PeakOverAllBins ==
    call.op = "getSpectrum"
    => \E p \in 0..(config.fftSize \div 2 - 1) :
          /\ \A k \in 0..(config.fftSize \div 2 - 1) :
                tick.magnitudes[k + 1] <= tick.magnitudes[p + 1]
          /\ currentSpectrum.peakFrequency = (p * ImplSampleRate) \div config.fftSize

\* the largest magnitude among the bins of band i, 0 when there is none
BandMaximum(magnitudes, i) ==
    SetMax({0} \cup {magnitudes[k + 1] :
                       k \in bandBins[i][1]..stdmin(bandBins[i][2], config.fftSize \div 2 - 1)})

\* C16: on every analysis, for every band i, the published magnitude is
\* a * (previous smoothed[i]) + (1 - a) * M_i with M_i the maximum bin
\* magnitude of the band; stop() (also as the first step of loadFile) sets
\* all smoothed values to zero and nothing else changes them.
C16_Smoothing ==
    [][/\ call'.op = "getSpectrum"
          => \A i \in 0..(config.numBands - 1) :
                /\ smoothedMagnitudes'[i] =
                       (config.smoothingFactor * smoothedMagnitudes[i]
                        + (SCALE - config.smoothingFactor) * BandMaximum(tick'.magnitudes, i))
                       \div SCALE
                /\ currentSpectrum'.magnitudes[i] = smoothedMagnitudes'[i]
       /\ call'.op \in {"stop", "loadFile"}
          => \A i \in 0..(config.numBands - 1) :
                smoothedMagnitudes'[i] = 0 /\ currentSpectrum'.magnitudes[i] = 0
       /\ call'.op \notin {"getSpectrum", "stop", "loadFile"}
          => smoothedMagnitudes' = smoothedMagnitudes]_vars

\* an analysis published a band whose bins hold different magnitudes
C16_Witness ==
    /\ call.op = "getSpectrum"
    /\ \E i \in 0..(config.numBands - 1) :
          /\ currentSpectrum.magnitudes[i] > 0
          /\ currentSpectrum.magnitudes[i] = smoothedMagnitudes[i]
          /\ \E j, k \in tick.binsRead[i] : tick.magnitudes[j + 1] # tick.magnitudes[k + 1]

----------------------------------------------------------------------------
(* C17, C19, C20: filter memory, idempotent setters, reset to defaults *)

\* every delay value of every filter of the EQProcessor is zero
DelayStateZero(fs) ==
    \A i \in Bands, c \in Channels :
        fs[i].x1[c] = 0 /\ fs[i].x2[c] = 0 /\ fs[i].y1[c] = 0 /\ fs[i].y2[c] = 0

\* the delay values of the filters
DelayState(fs) == [i \in Bands |-> <<fs[i].x1, fs[i].x2, fs[i].y1, fs[i].y2>>]

\* C17: the delay state of all 5 filters is all zeros right after a reset
\* and after a sample-rate change (EQProcessor::setSampleRate, which is what
\* PluginProcessor::setupProcessing calls); between such events only the
\* processing of samples changes it.
C17_DelayStateCleared ==
    [][/\ call'.op \in {"reset", "setSampleRate"} => DelayStateZero(filters_')
       /\ call'.op \notin {"reset", "setSampleRate"} \cup ProcessOps
          => DelayState(filters_') = DelayState(filters_)]_vars

\* the setter the last call named, applied once more with the same arguments
SameCallAgain ==
    CASE call.op = "setBandGain" -> EQ_setBandGain(EqObj, call.band, call.arg) = EqObj
      [] call.op = "setBandFrequency" -> EQ_setBandFrequency(EqObj, call.band, call.arg) = EqObj
      [] call.op = "setBandQ" -> EQ_setBandQ(EqObj, call.band, call.arg) = EqObj
      [] call.op = "setEQBandGain" -> AA_setEQBandGain(eqConfig, call.band, call.arg) = eqConfig
      [] call.op = "setEQBandFrequency" ->
             AA_setEQBandFrequency(eqConfig, call.band, call.arg) = eqConfig
      [] call.op = "setEQBandQ" -> AA_setEQBandQ(eqConfig, call.band, call.arg) = eqConfig

\* the bounds of the value the last setter call set
LowerBound == CASE call.op \in {"setBandGain", "setEQBandGain"} -> -1200
                [] call.op \in {"setBandFrequency", "setEQBandFrequency"} -> 20
                [] call.op \in {"setBandQ", "setEQBandQ"} -> 100

UpperBound == CASE call.op \in {"setBandGain", "setEQBandGain"} -> 1200
                [] call.op \in {"setBandFrequency", "setEQBandFrequency"} -> 20000
                [] call.op \in {"setBandQ", "setEQBandQ"} -> 10000

\* C19: a band setter called a second time with the same band index in 0..4
\* and the same value leaves the stored values and the coefficients as the
\* first call left them, and an out-of-range number is stored as the bound
\* it was clamped to both times.
C19_SettersIdempotent ==
    /\ [](call.op \in SetterOps /\ call.band \in Bands => SameCallAgain)
    /\ [][(/\ call'.op \in SetterOps
           /\ call'.band \in Bands
           /\ call.op = call'.op /\ call.band = call'.band /\ call.arg = call'.arg)
          => /\ UNCHANGED <<eqVars, aaEqVars>>
             /\ call'.arg # NaN => StoredByCall' = Clamped(call'.arg, LowerBound', UpperBound')]_vars

\* setBandGain(4, 100.0) stored 12 dB and a second call would change nothing
C19_Witness ==
    /\ call.op = "setBandGain"
    /\ call.band = NUM_BANDS - 1
    /\ call.arg = 10000
    /\ gains_[call.band] = MAX_GAIN
    /\ nCalls >= 2
    /\ EQ_setBandGain(EqObj, call.band, call.arg) = EqObj

\* C20: after the reset-EQ action the gain, frequency and Q of all 5 bands
\* equal those of a newly created equalizer configuration.
C20_ResetRestoresDefaults ==
    [][call'.op = "resetEQ"
       => \A i \in Bands :
             /\ eqConfig'.bands[i].gain = NewEqualizerConfig.bands[i].gain
             /\ eqConfig'.bands[i].frequency = NewEqualizerConfig.bands[i].frequency
             /\ eqConfig'.bands[i].q = NewEqualizerConfig.bands[i].q]_vars

----------------------------------------------------------------------------
(* C22: the inverse transform undoes the transform *)

\* the largest error of a sample after a transform and an inverse of n
\* points in the arithmetic of the model: none while every twiddle factor
\* is 1, -1, i or -i (n <= 4), else a rounding of 1/SCALE per stage and
\* output
RoundingError(n) == IF n <= 4 THEN 0 ELSE n

----------------------------------------------------------------------------
(* C21: stop, play and pause *)

\* everything of the player but the playing flag and the call counter
AllButPlaying == <<eqVars, aaEqVars, stateVars, anVars, aud, ui, bufferMutex, spectrumMutex_,
                   fileLoaded, deviceStarted, trVars, instVars, nCallbacks, cb, editsSinceUpdate,
                   settled, program, call>>

\* C21: when stop() returns, playing is false, the reported position is 0
\* if a file is loaded, and every smoothed magnitude and every magnitude of
\* the current spectrum frame is 0; play() without a file changes nothing,
\* and pause() changes nothing but the playing flag.
C21_StopPlayPause ==
    [][/\ stop => /\ ~playing'
                  /\ fileLoaded' => getPosition' = 0
                  /\ \A i \in DOMAIN smoothedMagnitudes' : smoothedMagnitudes'[i] = 0
                  /\ \A i \in DOMAIN currentSpectrum'.magnitudes :
                        currentSpectrum'.magnitudes[i] = 0
       /\ (play /\ ~fileLoaded) => UNCHANGED <<AllButPlaying, playing>>
       /\ pause => ~playing' /\ UNCHANGED AllButPlaying]_vars

\* stop was called with a file loaded and the position past frame 0, and
\* the player now is stopped at position 0 with all magnitudes zero
C21_Witness ==
    /\ call.op = "stop"
    /\ call.arg > 0
    /\ fileLoaded /\ ~playing /\ getPosition = 0
    /\ \A i \in DOMAIN smoothedMagnitudes : smoothedMagnitudes[i] = 0

----------------------------------------------------------------------------
(* C23 and C26: the frames of one callback, and the end of the file *)

\* C23: every frame of one audio callback is filtered by the same bands and
\* with the same coefficients: an edit made on the UI thread while the
\* callback runs changes neither for any frame of that block.
C23_OneSelectionPerCallback ==
    /\ [](~cb.mixed)
    /\ [][aud = "cb_filter"
          => \A i \in Bands : Coefficients(eqFilters'[i]) = Coefficients(eqFilters[i])]_vars

\* C26: a callback in which the file ends stores playing = false, and when
\* it returns the reported position is 0 and the decoder is at frame 0.
C26_EndOfFileRewinds ==
    [][/\ (aud = "cb_eof" /\ aud' # "cb_eof") => ~playing'
       /\ (aud = "cb_copy" /\ aud' = "idle" /\ cb.endOfFile)
          => getPosition' = 0 /\ decoderFrame' = 0]_vars

----------------------------------------------------------------------------
(* C24 and C25: the analyzer's buffers under every order of calls *)

\* C24: once initialize or setConfig has sized the rolling buffer, the write
\* cursor is an index of it whenever a call can begin, and the buffer and
\* the cursor change only while bufferMutex is held.
C24_CursorValidAndLocked ==
    /\ []((ui = "idle" /\ Size(sampleBuffer) > 0) => bufferWritePos < Size(sampleBuffer))
    /\ [][(sampleBuffer' # sampleBuffer \/ bufferWritePos' # bufferWritePos)
          => bufferMutex = "ui"]_vars

\* C25: when computeSpectrum executes, and when updateBands executes in
\* loadFile, initialize or setConfig, the band table, the smoothed
\* magnitudes and the magnitudes and frequencies of the current frame hold
\* numBands elements each and the rolling buffer is not empty.
C25_BuffersSizedInEveryOrder ==
    [][/\ (ui = "cs_extract" /\ ui' # ui)
          => BandVectorsSized /\ Size(bandBins) = config.numBands /\ Size(sampleBuffer) > 0
       /\ (nCalls' # nCalls /\ call'.op = "loadFile" /\ call'.out # <<FALSE>>)
          => BandVectorsSized
       /\ (nCalls' # nCalls /\ call'.op \in {"initialize", "setConfig"})
          => BandVectorsSized' /\ Size(bandBins') = config'.numBands]_vars

\* C27: with several plugin instances in one process, the spectrum an
\* editor fetched and displays was produced by the processor of its own
\* instance, never published by another instance's processor
C27_EditorShowsOwnInstance ==
    \A i \in Instances : editors[i].producer \subseteq {i}

\* C28: the static scratch buffer of PluginProcessor::process is never
\* accessed by two threads at a time: no two instances are between the
\* first write of tempBuffer and the last read of it together
C28_ScratchBufferExclusive ==
    \A i \in Instances : \A j \in Instances \ {i} :
        ~(procs[i].pc \in {"pp_window", "pp_fft"} /\ procs[j].pc \in {"pp_window", "pp_fft"})

\* C29: on the shared spectrum slot, in every interleaving: getSpectrum
\* returns false and leaves its output alone exactly if no setSpectrum has
\* completed, a true result's copy is the argument of the latest completed
\* setSpectrum (no mixture of two frames), hasNewData() tells that a
\* setSpectrum completed since the last successful getSpectrum, and the
\* writer proceeds whenever the mutex is free, read frame or not
C29_SharedSlotSemantics ==
    /\ [][\A i \in Instances :
            (editors[i].pc = "gs_copy" /\ editors'[i].pc = "idle") =>
                IF Size(shared.lastSet) = 0
                THEN /\ editors'[i].returned = <<FALSE>>
                     /\ editors'[i].newSpectrum = editors[i].newSpectrum
                     /\ editors'[i].spectrum_ = editors[i].spectrum_
                ELSE /\ editors'[i].returned = <<TRUE>>
                     /\ editors'[i].newSpectrum = shared.lastSet]_vars
    /\ [](shared.hasNewData_ = shared.fresh)
    /\ [](\A i \in Instances :
            (procs[i].pc = "ss_lock" /\ shared.mutex_ = 0) => ENABLED setSpectrum_lock(i))

\* a frame was replaced unread, and a later getSpectrum returned the
\* latest frame and cleared the flag
C29_Witness ==
    /\ shared.replaced /\ shared.sets >= 2 /\ ~shared.hasNewData_
    /\ \E i \in Instances :
          /\ editors[i].returned = <<TRUE>>
          /\ editors[i].newSpectrum = shared.lastSet
          /\ \E k \in DOMAIN shared.lastSet : shared.lastSet[k] # 0

\* the steps at which a thread acquires editorMutex_
EditorLockSteps == {"se_lock", "re_lock", "sp_lock", "te_lock"}

\* C30: in every interleaving of createView, editor destruction,
\* setParamNormalized, setComponentState and terminate, onParameterChange
\* is never called on a destroyed editor, and no thread acquires
\* editorMutex_ while it holds it
C30_EditorPointerValid ==
    /\ \A t \in Threads : threads[t].target # "destroyed"
    /\ \A t \in Threads :
          threads[t].pc \in EditorLockSteps => controller.editorMutex_ # t

\* setParamNormalized has notified the second editor after the first one
\* was destroyed
C30_Witness ==
    \E t \in Threads : \E e \in EditorIds :
        /\ threads[t].target = "alive"
        /\ threads[t].notified # e
        /\ views[e] = "destroyed"
        /\ controller.editor_ = threads[t].notified

============================================================================
